---- MODULE Spec2Model ----
(***************************************************************************)
(* A model of the colour engine of M3-You: the hex/RGB codec, the          *)
(* luminance and contrast functions, the Lab-based HCT conversion, the     *)
(* tonal palette, the scheme generator and the wallpaper colour extractor  *)
(* (js/m3-utils.js, js/m3-color-extractor.js).  Spec is the caller of the  *)
(* colour functions and the scheme generator, ExtractorSpec the caller of  *)
(* extractColorsFromPixels, PrimarySpec the caller of extractPrimaryColor. *)
(*                                                                         *)
(* Conventions.  A JavaScript string is a sequence of one-character        *)
(* strings.  A JavaScript call ends either by returning a value or by      *)
(* throwing; an outcome is the record Returned(v) or Threw(e).  Real       *)
(* numbers are fixed-point integers: HCT components are in hundredths,     *)
(* intermediate colour-space values in millionths or ten-thousandths as    *)
(* noted at each definition.                                               *)
(***************************************************************************)
EXTENDS Integers, Sequences, FiniteSets, TLC

(***************************************************************************)
(* Bounds of the model.                                                    *)
(***************************************************************************)
\* how far outside [0,255] the channel arguments of rgbToHex range
ChannelOver == 2
\* how many generateSchemeFromColor outcomes the caller's log keeps
MaxLog == 2
\* how many times in a row an image repeats one pixel
MaxRepeat == 2
\* how many pixels an image of freely ordered pixels has
MaxPixels == 3
\* the largest colorCount asked of extractColorsFromPixels
MaxCount == 2
\* how many colours a list given to extractPrimaryColor has
MaxColors == 3
\* connections of one element to the document
MaxConnects == 2
\* images loading at one time
MaxLoads == 2

(***************************************************************************)
(* Outcomes of a call.                                                     *)
(***************************************************************************)
Returned(v) == [status |-> "returned", value |-> v]
Threw(e) == [status |-> "threw", value |-> e]
\* the JavaScript value null
Null == [null |-> TRUE]

(***************************************************************************)
(* Strings.                                                                *)
(***************************************************************************)
LowerDigits ==
  << "0", "1", "2", "3", "4", "5", "6", "7",
     "8", "9", "a", "b", "c", "d", "e", "f" >>
UpperDigits ==
  << "0", "1", "2", "3", "4", "5", "6", "7",
     "8", "9", "A", "B", "C", "D", "E", "F" >>

\* String.prototype.toUpperCase on the characters the engine produces
toUpperCaseChar(c) ==
  IF \E i \in 11..16 : LowerDigits[i] = c
  THEN UpperDigits[CHOOSE i \in 11..16 : LowerDigits[i] = c]
  ELSE c
toUpperCase(s) == [i \in 1..Len(s) |-> toUpperCaseChar(s[i])]

\* Number.prototype.toString(16) of an integer: lowercase digits, no
\* padding, a leading "-" for a negative number
RECURSIVE Digits16(_)
Digits16(n) ==
  IF n < 16 THEN << LowerDigits[n + 1] >>
  ELSE Digits16(n \div 16) \o << LowerDigits[(n % 16) + 1] >>
toString16(x) == IF x < 0 THEN << "-" >> \o Digits16(-x) ELSE Digits16(x)

\* the character class [a-f\d] under the i flag
IsHexChar(c) ==
  \E i \in 1..16 : LowerDigits[i] = c \/ UpperDigits[i] = c
HexValue(c) ==
  (CHOOSE i \in 1..16 : LowerDigits[i] = c \/ UpperDigits[i] = c) - 1
\* parseInt reading the two digits in the wrong order
parseInt16_swapped(pair) == HexValue(pair[1]) + 16 * HexValue(pair[2])
\* parseInt(pair, 16) of a two-character group of the regular expression
parseInt16(pair) == 16 * HexValue(pair[1]) + HexValue(pair[2])

\* /^#?([a-f\d]{2})([a-f\d]{2})([a-f\d]{2})$/i.exec(hex): whether the string
\* matches, and the three groups of a match
RegexDigits(hex) == IF Len(hex) > 0 /\ hex[1] = "#" THEN Tail(hex) ELSE hex
\* the expression without its end anchor $
RegexMatches_unanchored(hex) ==
  LET s == RegexDigits(hex) IN
  Len(s) >= 6 /\ \A i \in 1..6 : IsHexChar(s[i])
RegexMatches(hex) ==
  LET s == RegexDigits(hex) IN
  Len(s) = 6 /\ \A i \in 1..6 : IsHexChar(s[i])
RegexExec(hex) ==
  LET s == RegexDigits(hex) IN
  << SubSeq(s, 1, 2), SubSeq(s, 3, 4), SubSeq(s, 5, 6) >>

(***************************************************************************)
(* ColorCodec: M3HCTColor.rgbToHex / hexToRgb and the M3ColorUtils twins.  *)
(***************************************************************************)
\* the callback without its zero padding
padHex_unpadded(x) == toString16(x)
\* the callback of .map in rgbToHex: one channel to its hex digits
padHex(x) ==
  LET hex == toString16(x) IN
  IF Len(hex) = 1 THEN << "0" >> \o hex ELSE hex

\* M3HCTColor.rgbToHex (M3ColorUtils.rgbToHex has the same body)
rgbToHex(r, g, b) ==
  toUpperCase(<< "#" >> \o padHex(r) \o padHex(g) \o padHex(b))

RgbOfGroups(result) ==
  [r |-> parseInt16(result[1]),
   g |-> parseInt16(result[2]),
   b |-> parseInt16(result[3])]

\* M3HCTColor.hexToRgb: black for a string that does not match
hexToRgb(hex) ==
  IF RegexMatches(hex) THEN RgbOfGroups(RegexExec(hex))
  ELSE [r |-> 0, g |-> 0, b |-> 0]

\* M3ColorUtils.hexToRgb: null for a string that does not match
M3ColorUtils_hexToRgb(hex) ==
  IF RegexMatches(hex) THEN RgbOfGroups(RegexExec(hex)) ELSE Null

\* a canonical colour string: "#" and six uppercase hex digits
IsCanonicalHex(s) ==
  /\ Len(s) = 7
  /\ s[1] = "#"
  /\ \A i \in 2..7 : \E k \in 1..16 : UpperDigits[k] = s[i]

(***************************************************************************)
(* Fixed-point arithmetic.                                                 *)
(***************************************************************************)
Max(a, b) == IF a >= b THEN a ELSE b
Min(a, b) == IF a <= b THEN a ELSE b
Abs(a) == IF a < 0 THEN -a ELSE a

\* the product of two millionths, in millionths
Mul6(u, k) ==
  LET uh == u \div 1000
      ul == u % 1000
      kh == k \div 1000
      kl == k % 1000
  IN uh * kh + (uh * kl + ul * kh + (ul * kl) \div 1000) \div 1000

\* the quotient n / d of two millionths, in millionths (0 <= n, 0 < d)
Div6(n, d) ==
  LET a == n * 1000 IN (a \div d) * 1000 + ((a % d) * 1000) \div d

\* the largest k in lo..hi with k * k <= n
RECURSIVE SqrtSearch(_, _, _)
SqrtSearch(n, lo, hi) ==
  IF lo >= hi THEN lo
  ELSE LET mid == (lo + hi + 1) \div 2 IN
       IF mid * mid <= n THEN SqrtSearch(n, mid, hi)
       ELSE SqrtSearch(n, lo, mid - 1)
\* Math.sqrt on integers, rounded down
ISqrt(n) == CHOOSE root \in {SqrtSearch(v, 0, 46340) : v \in {n}} : TRUE

\* the largest k in lo..hi with k * k * k <= n
RECURSIVE CbrtSearch(_, _, _)
CbrtSearch(n, lo, hi) ==
  IF lo >= hi THEN lo
  ELSE LET mid == (lo + hi + 1) \div 2 IN
       IF mid * mid * mid <= n THEN CbrtSearch(n, mid, hi)
       ELSE CbrtSearch(n, lo, mid - 1)
\* Math.cbrt of a millionth (at most 1.29), in ten-thousandths: the integer
\* cube root of ratio * 10^9, interpolated linearly to one more digit
Cbrt4(ratio6) ==
  CHOOSE root \in
    UNION
      {{10 * k + ((n - k * k * k) * 10) \div (3 * k * k + 3 * k + 1) :
          k \in {CbrtSearch(n, 0, 1290)}} :
         n \in {ratio6 * 1000}} :
    TRUE

\* sin of whole degrees 0..90, in ten-thousandths
SinTable ==
  << 0, 175, 349, 523, 698, 872, 1045, 1219,
     1392, 1564, 1736, 1908, 2079, 2250, 2419, 2588,
     2756, 2924, 3090, 3256, 3420, 3584, 3746, 3907,
     4067, 4226, 4384, 4540, 4695, 4848, 5000, 5150,
     5299, 5446, 5592, 5736, 5878, 6018, 6157, 6293,
     6428, 6561, 6691, 6820, 6947, 7071, 7193, 7314,
     7431, 7547, 7660, 7771, 7880, 7986, 8090, 8192,
     8290, 8387, 8480, 8572, 8660, 8746, 8829, 8910,
     8988, 9063, 9135, 9205, 9272, 9336, 9397, 9455,
     9511, 9563, 9613, 9659, 9703, 9744, 9781, 9816,
     9848, 9877, 9903, 9925, 9945, 9962, 9976, 9986,
     9994, 9998, 10000 >>
\* Math.sin and Math.cos of an angle in whole degrees, in ten-thousandths
SinDeg(d) ==
  LET m == d % 360 IN
  IF m <= 90 THEN SinTable[m + 1]
  ELSE IF m <= 180 THEN SinTable[(180 - m) + 1]
  ELSE IF m <= 270 THEN -SinTable[(m - 180) + 1]
  ELSE -SinTable[(360 - m) + 1]
CosDeg(d) == SinDeg(d + 90)

\* the angle in 0..90 whose direction is closest to (ax, ay), ax, ay >= 0
FirstQuadrantDeg(ay, ax) ==
  LET Err(d) == Abs(ay * CosDeg(d) - ax * SinDeg(d)) IN
  CHOOSE d \in 0..90 :
    /\ \A e \in 0..90 : Err(d) <= Err(e)
    /\ \A e \in 0..(d - 1) : Err(e) > Err(d)
\* Math.atan2(y, x) * 180 / Math.PI to the nearest whole degree, in
\* -180..180: the angle of the first quadrant for (|x|, |y|), reflected into
\* the quadrant of (x, y).  The arguments are evaluated once.
Atan2Deg(y, x) ==
  CHOOSE H \in
    {IF px = 0 /\ py = 0 THEN 0
     ELSE IF px >= 0 /\ py >= 0 THEN best
     ELSE IF px < 0 /\ py >= 0 THEN 180 - best
     ELSE IF px < 0 THEN best - 180
     ELSE -best :
       << py, px, best >> \in
         {<< vy, vx, FirstQuadrantDeg(Abs(vy), Abs(vx)) >> : vy \in {y}, vx \in {x}}} :
    TRUE

\* the remainder operator % of JavaScript: the sign of the dividend
JsRem(a, n) == IF a >= 0 THEN a % n ELSE -((-a) % n)

(***************************************************************************)
(* LuminanceContrast: M3HCTColor.relativeLuminance / contrastRatio /       *)
(* getAccessibleTextColor.                                                 *)
(***************************************************************************)
\* the gamma decoding of relativeLuminance, one entry per channel value
\* c = 0..255, in millionths:
\*   c/255 <= 0.03928 ? (c/255) / 12.92 : Math.pow((c/255 + 0.055) / 1.055, 2.4)
LinearTable ==
  << 0, 304, 607, 911, 1214, 1518, 1821, 2125,
     2428, 2732, 3035, 3347, 3677, 4025, 4391, 4777,
     5182, 5605, 6049, 6512, 6995, 7499, 8023, 8568,
     9134, 9721, 10330, 10960, 11612, 12286, 12983, 13702,
     14444, 15209, 15996, 16807, 17642, 18500, 19382, 20289,
     21219, 22174, 23153, 24158, 25187, 26241, 27321, 28426,
     29557, 30713, 31896, 33105, 34340, 35601, 36889, 38204,
     39546, 40915, 42311, 43735, 45186, 46665, 48172, 49707,
     51269, 52861, 54480, 56128, 57805, 59511, 61246, 63010,
     64803, 66626, 68478, 70360, 72272, 74214, 76185, 78187,
     80220, 82283, 84376, 86500, 88656, 90842, 93059, 95307,
     97587, 99899, 102242, 104616, 107023, 109462, 111932, 114435,
     116971, 119538, 122139, 124772, 127438, 130136, 132868, 135633,
     138432, 141263, 144128, 147027, 149960, 152926, 155926, 158961,
     162029, 165132, 168269, 171441, 174647, 177888, 181164, 184475,
     187821, 191202, 194618, 198069, 201556, 205079, 208637, 212231,
     215861, 219526, 223228, 226966, 230740, 234551, 238398, 242281,
     246201, 250158, 254152, 258183, 262251, 266356, 270498, 274677,
     278894, 283149, 287441, 291771, 296138, 300544, 304987, 309469,
     313989, 318547, 323143, 327778, 332452, 337164, 341914, 346704,
     351533, 356400, 361307, 366253, 371238, 376262, 381326, 386429,
     391572, 396755, 401978, 407240, 412543, 417885, 423268, 428690,
     434154, 439657, 445201, 450786, 456411, 462077, 467784, 473531,
     479320, 485150, 491021, 496933, 502886, 508881, 514918, 520996,
     527115, 533276, 539479, 545724, 552011, 558340, 564712, 571125,
     577580, 584078, 590619, 597202, 603827, 610496, 617207, 623960,
     630757, 637597, 644480, 651406, 658375, 665387, 672443, 679542,
     686685, 693872, 701102, 708376, 715694, 723055, 730461, 737910,
     745404, 752942, 760525, 768151, 775822, 783538, 791298, 799103,
     806952, 814847, 822786, 830770, 838799, 846873, 854993, 863157,
     871367, 879622, 887923, 896269, 904661, 913099, 921582, 930111,
     938686, 947307, 955973, 964686, 973445, 982251, 991102, 1000000 >>
\* relative luminance of a byte triple, in millionths
relativeLuminance(r, g, b) ==
  LET rLinear == LinearTable[r + 1]
      gLinear == LinearTable[g + 1]
      bLinear == LinearTable[b + 1]
  IN Mul6(212600, rLinear) + Mul6(715200, gLinear) + Mul6(72200, bLinear)

\* the ratio taken in argument order, without Math.max and Math.min
contrastRatio_unordered(color1, color2) ==
  LET rgb1 == hexToRgb(color1)
      rgb2 == hexToRgb(color2)
      luminance1 == relativeLuminance(rgb1.r, rgb1.g, rgb1.b)
      luminance2 == relativeLuminance(rgb2.r, rgb2.g, rgb2.b)
  IN ((luminance1 + 50000) * 1000) \div (luminance2 + 50000)
\* contrast ratio of two colour strings, in thousandths, rounded down
contrastRatio(color1, color2) ==
  LET rgb1 == hexToRgb(color1)
      rgb2 == hexToRgb(color2)
      luminance1 == relativeLuminance(rgb1.r, rgb1.g, rgb1.b)
      luminance2 == relativeLuminance(rgb2.r, rgb2.g, rgb2.b)
      lighter == Max(luminance1, luminance2)
      darker == Min(luminance1, luminance2)
  IN ((lighter + 50000) * 1000) \div (darker + 50000)

Black == << "#", "0", "0", "0", "0", "0", "0" >>
White == << "#", "F", "F", "F", "F", "F", "F" >>

\* the second branch returning its argument
getAccessibleTextColor_echo(backgroundColor) ==
  LET blackContrast == contrastRatio(backgroundColor, Black)
      whiteContrast == contrastRatio(backgroundColor, White)
  IN IF blackContrast >= 4500 THEN Black
     ELSE IF whiteContrast >= 4500 THEN backgroundColor
     ELSE White
\* the white contrast tested before the black contrast
getAccessibleTextColor_whiteFirst(backgroundColor) ==
  LET rgb == hexToRgb(backgroundColor)
      luminance == relativeLuminance(rgb.r, rgb.g, rgb.b)
      blackContrast == contrastRatio(backgroundColor, Black)
      whiteContrast == contrastRatio(backgroundColor, White)
  IN IF whiteContrast >= 4500 THEN White
     ELSE IF blackContrast >= 4500 THEN Black
     ELSE IF luminance > 500000 THEN Black ELSE White
\* the two thresholds at 3 instead of 4.5
getAccessibleTextColor_threshold3(backgroundColor) ==
  LET rgb == hexToRgb(backgroundColor)
      luminance == relativeLuminance(rgb.r, rgb.g, rgb.b)
      blackContrast == contrastRatio(backgroundColor, Black)
      whiteContrast == contrastRatio(backgroundColor, White)
  IN IF blackContrast >= 3000 THEN Black
     ELSE IF whiteContrast >= 3000 THEN White
     ELSE IF luminance > 500000 THEN Black ELSE White
\* M3HCTColor.getAccessibleTextColor
getAccessibleTextColor(backgroundColor) ==
  LET rgb == hexToRgb(backgroundColor)
      luminance == relativeLuminance(rgb.r, rgb.g, rgb.b)
      blackContrast == contrastRatio(backgroundColor, Black)
      whiteContrast == contrastRatio(backgroundColor, White)
  IN IF blackContrast >= 4500 THEN Black
     ELSE IF whiteContrast >= 4500 THEN White
     ELSE IF luminance > 500000 THEN Black ELSE White

\* M3ColorUtils.calculateLuminance: the same gamma decoding and weights, in
\* millionths
calculateLuminance(r, g, b) ==
  LET rLinear == LinearTable[r + 1]
      gLinear == LinearTable[g + 1]
      bLinear == LinearTable[b + 1]
  IN Mul6(212600, rLinear) + Mul6(715200, gLinear) + Mul6(72200, bLinear)
\* M3ColorUtils.getAccessibleTextColor: the luminance test alone
M3ColorUtils_getAccessibleTextColor(backgroundColor) ==
  LET rgb == M3ColorUtils_hexToRgb(backgroundColor) IN
  IF rgb = Null THEN Black
  ELSE LET luminance == calculateLuminance(rgb.r, rgb.g, rgb.b)
       IN IF luminance > 500000 THEN Black ELSE White

(***************************************************************************)
(* ColorSpaceConverter: class M3HCTColor.  An HCT colour is a record with  *)
(* hue, chroma and tone in hundredths.                                     *)
(***************************************************************************)
\* hundredths of a whole number
T(n) == n * 100

\* new M3HCTColor(hue, chroma, tone)
M3HCTColor(hue, chroma, tone) == [hue |-> hue, chroma |-> chroma, tone |-> tone]

\* the members of M3HCTColor.prototype, on which a property of an instance
\* is looked up; the static members live on the constructor and are not
\* reachable through an instance
M3HCTColor_prototype == {"constructor", "toRgb", "toHex", "getHuePalette"}
M3HCTColor_static ==
  {"fromHex", "fromRgb", "rgbToHct", "generateDynamicPalette", "adjustHue",
   "adjustChroma", "adjustTone", "generateTonalPalette", "rgbToHex",
   "hexToRgb", "contrastRatio", "relativeLuminance", "getAccessibleTextColor"}
\* is this.name a function for an instance this of M3HCTColor
InstanceHasMethod(name) == name \in M3HCTColor_prototype

\* XYZ -> Lab: ratio > epsilon ? Math.cbrt(ratio) : (kappa * ratio + 16) / 116,
\* a millionth to ten-thousandths
LabF(ratio6) ==
  IF ratio6 > 8856 THEN Cbrt4(ratio6)
  ELSE ((9033 * ratio6) \div 1000 + 160000) \div 116

\* the first half of M3HCTColor.rgbToHct, RGB -> XYZ -> Lab: << L, a, b >>
rgbToLab(r, g, b) ==
  CHOOSE lab \in
    {<< 116 * f[2] - 160000,
        (500 * (f[1] - f[2])) \div 100,
        (200 * (f[2] - f[3])) \div 100 >> :
       f \in
         {LET x == (412456 * r + 357576 * g + 180438 * b) \div 255
              y == (212673 * r + 715152 * g + 72175 * b) \div 255
              z == (19334 * r + 119192 * g + 950304 * b) \div 255
              xRatio == Div6(x, 950470)
              yRatio == Div6(y, 1000000)
              zRatio == Div6(z, 1088830)
          IN << LabF(xRatio), LabF(yRatio), LabF(zRatio) >>}} :
    TRUE
\* M3HCTColor.rgbToHct: << hue, chroma, tone >> in hundredths
rgbToHct(r, g, b) ==
  CHOOSE hct \in
    UNION
      {{<< T(IF H < 0 THEN H + 360 ELSE H), (C * 8) \div 10,
           (lab[1] + 50) \div 100 >> :
          C \in {ISqrt(lab[2] * lab[2] + lab[3] * lab[3])},
          H \in {Atan2Deg(lab[3], lab[2])}} :
         lab \in {rgbToLab(r, g, b)}} :
    TRUE

\* M3HCTColor.fromHex
fromHex(hex) ==
  CHOOSE color \in
    UNION
      {{M3HCTColor(hct[1], hct[2], hct[3]) :
          hct \in {rgbToHct(rgb.r, rgb.g, rgb.b)}} :
         rgb \in {hexToRgb(hex)}} :
    TRUE

\* the last three steps of toRgb on one linear channel in millionths: gamma
\* encoding, clamping to [0,1] and Math.round(v * 255).  Entry c = 1..255 is
\* the least linear value that rounds to c or more:
\*   v > 0.0031308 ? 1.055 * v ** (1 / 2.4) - 0.055 : 12.92 * v
GammaThreshold ==
  << 152, 456, 759, 1063, 1366, 1670, 1973, 2277,
     2580, 2884, 3189, 3510, 3849, 4206, 4582, 4977,
     5392, 5825, 6278, 6752, 7245, 7759, 8294, 8849,
     9425, 10023, 10643, 11284, 11947, 12632, 13340, 14071,
     14824, 15600, 16399, 17222, 18069, 18939, 19833, 20751,
     21694, 22661, 23653, 24670, 25711, 26778, 27871, 28989,
     30132, 31302, 32498, 33719, 34968, 36243, 37544, 38872,
     40228, 41610, 43020, 44458, 45923, 47415, 48936, 50485,
     52062, 53667, 55301, 56964, 58655, 60376, 62125, 63903,
     65711, 67549, 69416, 71313, 73239, 75196, 77183, 79200,
     81248, 83326, 85435, 87575, 89745, 91947, 94180, 96444,
     98740, 101067, 103426, 105816, 108239, 110694, 113180, 115699,
     118251, 120835, 123452, 126101, 128783, 131499, 134247, 137029,
     139844, 142692, 145574, 148490, 151439, 154423, 157440, 160491,
     163577, 166697, 169851, 173040, 176264, 179522, 182816, 186144,
     189507, 192906, 196340, 199809, 203314, 206854, 210430, 214042,
     217689, 221373, 225093, 228849, 232641, 236470, 240335, 244237,
     248176, 252151, 256163, 260213, 264299, 268423, 272583, 276782,
     281017, 285291, 289602, 293950, 298337, 302761, 307224, 311725,
     316263, 320841, 325456, 330110, 334803, 339535, 344305, 349114,
     353962, 358849, 363775, 368741, 373745, 378790, 383873, 388996,
     394159, 399362, 404605, 409887, 415209, 420572, 425975, 431418,
     436901, 442425, 447989, 453594, 459239, 464926, 470653, 476421,
     482230, 488081, 493972, 499905, 505879, 511895, 517952, 524051,
     530191, 536373, 542597, 548863, 555171, 561521, 567913, 574348,
     580825, 587344, 593905, 600510, 607157, 613846, 620579, 627354,
     634172, 641033, 647938, 654885, 661876, 668910, 675988, 683109,
     690274, 697482, 704734, 712030, 719369, 726753, 734181, 741652,
     749168, 756728, 764333, 771982, 779675, 787413, 795195, 803022,
     810894, 818811, 826773, 834779, 842831, 850928, 859070, 867257,
     875490, 883768, 892091, 900460, 908875, 917335, 925841, 934393,
     942991, 951635, 960325, 969060, 977843, 986671, 995546 >>
gammaRound255(v6) == Cardinality({c \in 1..255 : GammaThreshold[c] <= v6})

\* f ** 3 of a ten-thousandth, in millionths
Cube6(f) == (((f * f) \div 10000) * f) \div 100
\* Lab -> XYZ: f ** 3 > 0.008856 ? f ** 3 : (116 * f - 16) / 903.3,
\* a ten-thousandth to millionths
LabFInverse(f) ==
  IF Cube6(f) > 8856 THEN Cube6(f)
  ELSE ((116 * f - 160000) * 1000) \div 9033

\* M3HCTColor.prototype.toRgb
toRgb(this) ==
  LET hDeg == (this.hue + 50) \div 100
      a == (this.chroma * CosDeg(hDeg)) \div 8000
      b == (this.chroma * SinDeg(hDeg)) \div 8000
      L == this.tone
      fy == (L * 100 + 160000) \div 116
      fx == fy + a \div 5
      fz == fy - b \div 2
      x == Mul6(LabFInverse(fx), 950470)
      y == Mul6(LabFInverse(fy), 1000000)
      z == Mul6(LabFInverse(fz), 1088830)
      r == Mul6(3240454, x) - Mul6(1537139, y) - Mul6(498531, z)
      g == Mul6(1876011, y) + Mul6(41556, z) - Mul6(969266, x)
      bResult == Mul6(55643, x) - Mul6(204026, y) + Mul6(1057225, z)
  IN [r |-> gammaRound255(r), g |-> gammaRound255(g), b |-> gammaRound255(bResult)]

\* M3HCTColor.prototype.toHex: this.rgbToHex is looked up on the instance
toHex(this) ==
  LET rgb == toRgb(this) IN
  IF InstanceHasMethod("rgbToHex")
  THEN Returned(rgbToHex(rgb.r, rgb.g, rgb.b))
  ELSE Threw("TypeError")

\* M3HCTColor.adjustHue / adjustChroma / adjustTone
adjustHue(color, delta) ==
  M3HCTColor(JsRem(color.hue + delta, T(360)), color.chroma, color.tone)
adjustChroma(color, delta) ==
  M3HCTColor(color.hue, Max(0, color.chroma + delta), color.tone)
\* the tone without its ceiling of 100
adjustTone_noCeiling(color, delta) ==
  M3HCTColor(color.hue, color.chroma, Max(0, color.tone + delta))
adjustTone(color, delta) ==
  M3HCTColor(color.hue, color.chroma, Max(0, Min(T(100), color.tone + delta)))

(***************************************************************************)
(* ToneScaleGenerator: M3HCTColor.generateTonalPalette.                    *)
(***************************************************************************)
tones == << 0, 10, 20, 30, 40, 50, 60, 70, 80, 90, 95, 99, 100 >>

\* the outcome of tones.map(...): the first toHex that throws ends the call
generateTonalPalette(color) ==
  CHOOSE outcome \in
    {IF \E i \in 1..Len(tones) : hexes[i].status = "threw"
     THEN hexes[CHOOSE i \in 1..Len(tones) :
                  /\ hexes[i].status = "threw"
                  /\ \A j \in 1..(i - 1) : hexes[j].status = "returned"]
     ELSE Returned([i \in 1..Len(tones) |-> hexes[i].value]) :
       hexes \in
         {[i \in 1..Len(tones) |->
             toHex(M3HCTColor(color.hue, color.chroma, T(tones[i])))]}} :
    TRUE

(***************************************************************************)
(* SchemeGenerator: M3ColorExtractor.generateSchemeFromColor.              *)
(***************************************************************************)
RoleNames ==
  {"primary", "onPrimary", "primaryContainer", "onPrimaryContainer",
   "secondary", "onSecondary", "secondaryContainer", "onSecondaryContainer",
   "tertiary", "onTertiary", "tertiaryContainer", "onTertiaryContainer",
   "surface", "surfaceDim", "surfaceBright", "surfaceContainerLowest",
   "surfaceContainerLow", "surfaceContainer", "surfaceContainerHigh",
   "surfaceContainerHighest", "onSurface", "onSurfaceVariant", "outline",
   "outlineVariant", "error", "onError", "errorContainer", "onErrorContainer"}

\* the fixed error colours of the two modes
ErrorLight == << "#", "B", "A", "1", "A", "1", "A" >>
OnErrorLight == << "#", "F", "F", "F", "F", "F", "F" >>
ErrorContainerLight == << "#", "F", "F", "D", "A", "D", "6" >>
OnErrorContainerLight == << "#", "4", "1", "0", "0", "0", "2" >>
ErrorDark == << "#", "F", "2", "B", "8", "B", "5" >>
OnErrorDark == << "#", "6", "0", "1", "4", "1", "0" >>
ErrorContainerDark == << "#", "8", "C", "1", "D", "1", "8" >>
OnErrorContainerDark == << "#", "F", "9", "D", "E", "D", "C" >>

\* the M3HCTColor instances generateSchemeFromColor calls toHex() on, by the
\* role the string goes to, hctColor.toHex() of the role primary being the
\* first call
schemeColorsOf(hctColor, isDark) ==
  LET baseTone == IF isDark THEN T(20) ELSE T(80)
      containerTone == IF isDark THEN T(30) ELSE T(90)
      secondary == adjustHue(hctColor, T(60))
      secondaryAdjusted == adjustTone(secondary, baseTone - secondary.tone)
      tertiary == adjustHue(hctColor, T(120))
      tertiaryAdjusted == adjustTone(tertiary, baseTone - tertiary.tone)
      surfaceHct == M3HCTColor(hctColor.hue, Max(0, hctColor.chroma - T(40)),
                               IF isDark THEN T(10) ELSE T(99))
  IN [primary |-> hctColor,
      primaryContainer |-> adjustTone(hctColor, containerTone - hctColor.tone),
      secondary |-> secondaryAdjusted,
      secondaryContainer |-> adjustTone(secondaryAdjusted, T(10)),
      tertiary |-> tertiaryAdjusted,
      tertiaryContainer |-> adjustTone(tertiaryAdjusted, T(10)),
      surface |-> surfaceHct,
      surfaceDim |-> adjustTone(surfaceHct, IF isDark THEN T(-4) ELSE T(-12)),
      surfaceBright |-> adjustTone(surfaceHct, IF isDark THEN T(14) ELSE T(4)),
      surfaceContainerLowest |-> adjustTone(surfaceHct, IF isDark THEN T(0) ELSE T(5)),
      surfaceContainerLow |-> adjustTone(surfaceHct, IF isDark THEN T(4) ELSE T(8)),
      surfaceContainer |-> adjustTone(surfaceHct, IF isDark THEN T(6) ELSE T(12)),
      surfaceContainerHigh |-> adjustTone(surfaceHct, IF isDark THEN T(8) ELSE T(16)),
      surfaceContainerHighest |-> adjustTone(surfaceHct, IF isDark THEN T(12) ELSE T(22)),
      onSurfaceVariant |-> adjustTone(surfaceHct, IF isDark THEN T(70) ELSE T(30)),
      outline |-> adjustTone(hctColor, IF isDark THEN T(60) ELSE T(50)),
      outlineVariant |-> adjustTone(hctColor, IF isDark THEN T(30) ELSE T(80))]
\* const hctColor = M3HCTColor.fromHex(primaryColor), evaluated once
schemeColors(primaryColor, isDark) ==
  CHOOSE colors \in
    {schemeColorsOf(hctColor, isDark) : hctColor \in {fromHex(primaryColor)}} :
    TRUE

\* the roles set to M3HCTColor.getAccessibleTextColor of another role's string
textRoles ==
  [onPrimary |-> "primary",
   onPrimaryContainer |-> "primaryContainer",
   onSecondary |-> "secondary",
   onSecondaryContainer |-> "secondaryContainer",
   onTertiary |-> "tertiary",
   onTertiaryContainer |-> "tertiaryContainer",
   onSurface |-> "surface"]

\* the roles set to a literal
errorRoles(isDark) ==
  [error |-> IF isDark THEN ErrorDark ELSE ErrorLight,
   onError |-> IF isDark THEN OnErrorDark ELSE OnErrorLight,
   errorContainer |-> IF isDark THEN ErrorContainerDark ELSE ErrorContainerLight,
   onErrorContainer |->
     IF isDark THEN OnErrorContainerDark ELSE OnErrorContainerLight]

\* the object literal generateSchemeFromColor returns, given the outcome of
\* each toHex() call: a toHex() that throws ends the call, the first one
\* being hctColor.toHex()
schemeOutcome(hexes, isDark) ==
  LET literals == errorRoles(isDark) IN
  IF hexes["primary"].status = "threw" THEN hexes["primary"]
  ELSE IF \E k \in DOMAIN hexes : hexes[k].status = "threw"
  THEN hexes[CHOOSE k \in DOMAIN hexes : hexes[k].status = "threw"]
  ELSE Returned(
    [k \in RoleNames |->
       IF k \in DOMAIN hexes THEN hexes[k].value
       ELSE IF k \in DOMAIN textRoles
       THEN getAccessibleTextColor(hexes[textRoles[k]].value)
       ELSE literals[k]])

\* the outcome of generateSchemeFromColor(primaryColor, isDark)
generateSchemeFromColor(primaryColor, isDark) ==
  CHOOSE outcome \in
    UNION
      {{schemeOutcome(hexes, isDark) :
          hexes \in {[k \in DOMAIN colors |-> toHex(colors[k])]}} :
         colors \in {schemeColors(primaryColor, isDark)}} :
    TRUE

(***************************************************************************)
(* WallpaperColorExtractor: M3ColorExtractor.extractColorsFromPixels.      *)
(* pixels is the flat byte array of an ImageData, four entries (r, g, b,   *)
(* alpha) a pixel; the entry of the 0-based index i is pixels[i + 1].      *)
(* colorMap is a Map in insertion order: a sequence of << key, count >>.   *)
(***************************************************************************)
\* String(n) of a non-negative integer, as the template literal writes it
RECURSIVE Digits10(_)
Digits10(n) ==
  IF n < 10 THEN << LowerDigits[n + 1] >>
  ELSE Digits10(n \div 10) \o << LowerDigits[(n % 10) + 1] >>

\* the alpha test compared with <= 128
isTransparent_inclusive(alpha) == alpha <= 128
\* if (pixels[i + 3] < 128) continue
isTransparent(alpha) == alpha < 128

\* one channel rounded to the nearest multiple of 16
quantize_nearest(c) == ((c + 8) \div 16) * 16
\* Math.floor(c / 16) * 16
quantize(c) == (c \div 16) * 16

\* `${quantizedR},${quantizedG},${quantizedB}`
colorKeyOf(quantizedR, quantizedG, quantizedB) ==
  Digits10(quantizedR) \o << "," >> \o Digits10(quantizedG)
    \o << "," >> \o Digits10(quantizedB)

\* colorMap.has(colorKey), colorMap.get(colorKey) || 0 and
\* colorMap.set(colorKey, value)
colorMapHas(colorMap, colorKey) ==
  \E j \in 1..Len(colorMap) : colorMap[j][1] = colorKey
colorMapGet(colorMap, colorKey) ==
  IF colorMapHas(colorMap, colorKey)
  THEN colorMap[CHOOSE j \in 1..Len(colorMap) : colorMap[j][1] = colorKey][2]
  ELSE 0
colorMapSet(colorMap, colorKey, value) ==
  IF colorMapHas(colorMap, colorKey)
  THEN [j \in 1..Len(colorMap) |->
          IF colorMap[j][1] = colorKey THEN << colorKey, value >> ELSE colorMap[j]]
  ELSE Append(colorMap, << colorKey, value >>)

\* the for loop over the pixels, from the 0-based index i on
RECURSIVE quantizeLoop(_, _, _)
quantizeLoop(pixels, i, colorMap) ==
  IF i >= Len(pixels) THEN colorMap
  ELSE IF isTransparent(pixels[i + 4]) THEN quantizeLoop(pixels, i + 4, colorMap)
  ELSE CHOOSE done \in
         {quantizeLoop(pixels, i + 4, next) :
            next \in
              {colorMapSet(colorMap, colorKey, colorMapGet(colorMap, colorKey) + 1) :
                 colorKey \in
                   {colorKeyOf(quantize(pixels[i + 1]), quantize(pixels[i + 2]),
                               quantize(pixels[i + 3]))}}} :
         TRUE

\* Array.from(colorMap.entries()).sort((a, b) => b[1] - a[1]): a stable sort
\* by descending count
sortByCount(entries) ==
  LET n == Len(entries)
      Before(i, j) ==
        \/ entries[i][2] > entries[j][2]
        \/ entries[i][2] = entries[j][2] /\ i < j
      Place(j) == Cardinality({i \in 1..n : Before(i, j)}) + 1
  IN [p \in 1..n |-> entries[CHOOSE j \in 1..n : Place(j) = p]]

\* the whole array in place of its first entries
slice_whole(array, end) == array
\* array.slice(0, end), 0 <= end
slice(array, end) == SubSeq(array, 1, Min(Len(array), end))

\* colorKey.split(',')
RECURSIVE split(_)
split(s) ==
  IF \A i \in 1..Len(s) : s[i] # "," THEN << s >>
  ELSE LET i == CHOOSE i \in 1..Len(s) :
                  s[i] = "," /\ \A j \in 1..(i - 1) : s[j] # ","
       IN << SubSeq(s, 1, i - 1) >> \o split(SubSeq(s, i + 1, Len(s)))
\* Number(s) of a string of decimal digits
RECURSIVE ToNumber(_)
ToNumber(s) ==
  IF Len(s) = 0 THEN 0
  ELSE 10 * ToNumber(SubSeq(s, 1, Len(s) - 1)) + HexValue(s[Len(s)])
\* const [r, g, b] = colorKey.split(',').map(Number);
\* const hexColor = M3HCTColor.rgbToHex(r, g, b)
hexColorOf(colorKey) ==
  LET parts == split(colorKey) IN
  rgbToHex(ToNumber(parts[1]), ToNumber(parts[2]), ToNumber(parts[3]))

\* M3HCTColor.contrastRatio(color1, color2) > thousandths / 1000, compared
\* without rounding the ratio
contrastRatioExceeds(color1, color2, thousandths) ==
  LET rgb1 == hexToRgb(color1)
      rgb2 == hexToRgb(color2)
      luminance1 == relativeLuminance(rgb1.r, rgb1.g, rgb1.b)
      luminance2 == relativeLuminance(rgb2.r, rgb2.g, rgb2.b)
      lighter == Max(luminance1, luminance2)
      darker == Min(luminance1, luminance2)
  IN (lighter + 50000) * 1000 > thousandths * (darker + 50000)

\* every candidate taken for distinct
isDistinct_always(hexColor, distinctColors) == TRUE
\* distinctColors.every(existingColor => contrast > 1.5)
isDistinct(hexColor, distinctColors) ==
  \A e \in 1..Len(distinctColors) :
    contrastRatioExceeds(hexColor, distinctColors[e], 1500)

\* the for loop over sortedColors, from the j-th candidate on; the break
\* ends it once colorCount colours are kept
RECURSIVE filterLoop(_, _, _, _)
filterLoop(sortedColors, j, distinctColors, colorCount) ==
  IF j > Len(sortedColors) THEN distinctColors
  ELSE CHOOSE done \in
         {IF ~kept.isDistinct
          THEN filterLoop(sortedColors, j + 1, distinctColors, colorCount)
          ELSE IF Len(kept.pushed) >= colorCount THEN kept.pushed
          ELSE filterLoop(sortedColors, j + 1, kept.pushed, colorCount) :
            kept \in
              {[isDistinct |-> isDistinct(hexColor, distinctColors),
                pushed |-> Append(distinctColors, hexColor)] :
                 hexColor \in {hexColorOf(sortedColors[j][1])}}} :
         TRUE

\* the histogram of the first loop
buildColorMap(pixels) == quantizeLoop(pixels, 0, << >>)

\* M3ColorExtractor.extractColorsFromPixels
extractColorsFromPixels(pixels, colorCount) ==
  CHOOSE distinctColors \in
    {filterLoop(sortedColors, 1, << >>, colorCount) :
       sortedColors \in
         {slice(sortByCount(colorMap), colorCount * 2) :
            colorMap \in {buildColorMap(pixels)}}} :
    TRUE

\* the default colour of extractPrimaryColor
DefaultPrimary == << "#", "6", "7", "5", "0", "A", "4" >>

\* the callback of colors.map in extractPrimaryColor: the score of a colour
\* of HCT components hct and channels rgb.  The saturation
\* (max - min) / max is NaN for black and then passes no comparison.
scoreOfParts(hct, rgb) ==
  LET maxComponent == Max(rgb.r, Max(rgb.g, rgb.b))
      minComponent == Min(rgb.r, Min(rgb.g, rgb.b))
      spread == maxComponent - minComponent
  IN (IF hct.chroma > T(20) /\ hct.chroma < T(60) THEN 30 ELSE 0)
     + (IF hct.tone > T(30) /\ hct.tone < T(70) THEN 30 ELSE 0)
     + (IF /\ maxComponent # 0
           /\ 10 * spread > 3 * maxComponent
           /\ 10 * spread < 8 * maxComponent
        THEN 20 ELSE 0)
     - (IF Abs(rgb.r - rgb.g) < 30 /\ Abs(rgb.g - rgb.b) < 30 THEN 50 ELSE 0)
     - (IF hct.tone < T(10) \/ hct.tone > T(90) THEN 30 ELSE 0)
scoreOf(color) ==
  CHOOSE score \in
    {scoreOfParts(hct, hexToRgb(color)) : hct \in {fromHex(color)}} :
    TRUE

\* a sort that puts the later of two equal scores first
sortByScore_laterFirst(scoredColors) ==
  LET n == Len(scoredColors)
      Before(i, j) ==
        \/ scoredColors[i].score > scoredColors[j].score
        \/ scoredColors[i].score = scoredColors[j].score /\ i > j
      Place(j) == Cardinality({i \in 1..n : Before(i, j)}) + 1
  IN [p \in 1..n |-> scoredColors[CHOOSE j \in 1..n : Place(j) = p]]
\* scoredColors.sort((a, b) => b.score - a.score): a stable sort by
\* descending score
sortByScore(scoredColors) ==
  LET n == Len(scoredColors)
      Before(i, j) ==
        \/ scoredColors[i].score > scoredColors[j].score
        \/ scoredColors[i].score = scoredColors[j].score /\ i < j
      Place(j) == Cardinality({i \in 1..n : Before(i, j)}) + 1
  IN [p \in 1..n |-> scoredColors[CHOOSE j \in 1..n : Place(j) = p]]

\* M3ColorExtractor.extractPrimaryColor
extractPrimaryColor(colors) ==
  IF Len(colors) = 0 THEN DefaultPrimary
  ELSE CHOOSE color \in
         {sortByScore(scoredColors)[1].color :
            scoredColors \in
              {[i \in 1..Len(colors) |->
                  [color |-> colors[i], score |-> scoreOf(colors[i])]]}} :
         TRUE

(***************************************************************************)
(* Components: the custom elements m3-switch (class M3Switch) and          *)
(* m3-button (class M3Button).  An element is a record of its attributes,  *)
(* its fields, its listeners and the events it has dispatched during the   *)
(* current operation.  An attribute value or a field that may be absent is *)
(* << >> when absent and << v >> when it is v.  A function made by bind    *)
(* carries the number of its making; 0 is a method taken from the          *)
(* prototype as it is.                                                     *)
(***************************************************************************)
hasAttribute(this, name) == this.attributes[name] # << >>

\* EventTarget.addEventListener and removeEventListener on one event type
addEventListener(listeners, fn) ==
  IF \E k \in 1..Len(listeners) : listeners[k] = fn
  THEN listeners ELSE Append(listeners, fn)
removeEventListener(listeners, fn) ==
  SelectSeq(listeners, LAMBDA f : << f >> # fn)

toStringBoolean(b) == IF b THEN "true" ELSE "false"

\* new M3Switch() on an element without attributes
M3Switch_constructor ==
  [isConnected |-> FALSE,
   attributes |-> [name \in {"checked", "disabled", "role", "tabindex",
                             "aria-checked", "aria-disabled"} |-> << >>],
   _checked |-> FALSE,
   shadowRoot |-> [checked |-> FALSE, disabled |-> FALSE],
   _clickHandler |-> << >>,
   _keydownHandler |-> << >>,
   binds |-> 0,
   listeners |-> [click |-> << >>, keydown |-> << >>],
   dispatched |-> << >>]

\* M3Switch._render: the shadow tree is rebuilt from _checked and disabled
M3Switch__render(this) ==
  [this EXCEPT !.shadowRoot = [checked |-> this._checked,
                               disabled |-> hasAttribute(this, "disabled")]]

M3Switch__updateAccessibility(this) ==
  LET disabled == hasAttribute(this, "disabled") IN
  [this EXCEPT
     !.attributes["role"] = << "switch" >>,
     !.attributes["tabindex"] = IF disabled THEN << "-1" >> ELSE << "0" >>,
     !.attributes["aria-checked"] = << toStringBoolean(this._checked) >>,
     !.attributes["aria-disabled"] = IF disabled THEN << "true" >> ELSE << >>]

\* the callback without the assignment to _checked
M3Switch_attributeChangedCallback_renderOnly(this, name, oldValue, newValue) ==
  IF oldValue # newValue
  THEN M3Switch__updateAccessibility(M3Switch__render(this))
  ELSE this
M3Switch_attributeChangedCallback(this, name, oldValue, newValue) ==
  IF oldValue # newValue
  THEN M3Switch__updateAccessibility(M3Switch__render(
         IF name = "checked"
         THEN [this EXCEPT !._checked = (newValue # << >>)]
         ELSE this))
  ELSE this

\* Element.setAttribute and removeAttribute on an observed attribute of an
\* m3-switch, with the attributeChangedCallback the browser then makes
M3Switch_setAttribute(this, name, value) ==
  M3Switch_attributeChangedCallback(
    [this EXCEPT !.attributes[name] = << value >>],
    name, this.attributes[name], << value >>)
M3Switch_removeAttribute(this, name) ==
  IF ~hasAttribute(this, name) THEN this
  ELSE M3Switch_attributeChangedCallback(
         [this EXCEPT !.attributes[name] = << >>],
         name, this.attributes[name], << >>)

M3Switch__toggle(this) ==
  IF hasAttribute(this, "disabled") THEN this
  ELSE LET flipped == [this EXCEPT !._checked = ~this._checked]
           written == IF flipped._checked
                      THEN M3Switch_setAttribute(flipped, "checked", "")
                      ELSE M3Switch_removeAttribute(flipped, "checked")
       IN [written EXCEPT
             !.dispatched = Append(@, [type |-> "change",
                                       checked |-> written._checked])]

M3Switch__handleKeyDown(this, key) ==
  IF hasAttribute(this, "disabled") THEN this
  ELSE IF key = "Enter" \/ key = " " THEN M3Switch__toggle(this)
  ELSE this

M3Switch__setupEventListeners(this) ==
  LET clickHandler == this.binds + 1
      keydownHandler == this.binds + 2
  IN [this EXCEPT
        !.binds = @ + 2,
        !._clickHandler = << clickHandler >>,
        !._keydownHandler = << keydownHandler >>,
        !.listeners.click = addEventListener(@, clickHandler),
        !.listeners.keydown = addEventListener(@, keydownHandler)]

M3Switch__cleanupEventListeners(this) ==
  [this EXCEPT
     !.listeners.click = removeEventListener(@, this._clickHandler),
     !.listeners.keydown = removeEventListener(@, this._keydownHandler)]

M3Switch_connectedCallback(this) ==
  M3Switch__updateAccessibility(M3Switch__setupEventListeners(this))

M3Switch_disconnectedCallback(this) == M3Switch__cleanupEventListeners(this)

M3Switch_toggle(this) == M3Switch__toggle(this)

M3Switch_setChecked(this, checked) ==
  LET assigned == [this EXCEPT !._checked = checked]
      written == IF checked
                 THEN M3Switch_setAttribute(assigned, "checked", "")
                 ELSE M3Switch_removeAttribute(assigned, "checked")
  IN M3Switch__updateAccessibility(written)

M3Switch_setDisabled(this, disabled) ==
  IF disabled THEN M3Switch_setAttribute(this, "disabled", "")
  ELSE M3Switch_removeAttribute(this, "disabled")

M3Switch_checked(this) == this._checked

\* a click event on the element: every click listener, a bound _toggle,
\* runs in the order of its adding
RECURSIVE M3Switch_dispatchClick(_, _)
M3Switch_dispatchClick(this, k) ==
  IF k = 0 THEN this
  ELSE M3Switch_dispatchClick(M3Switch__toggle(this), k - 1)
\* a keydown event on the element: every keydown listener, a bound
\* _handleKeyDown, runs
RECURSIVE M3Switch_dispatchKeyDown(_, _, _)
M3Switch_dispatchKeyDown(this, key, k) ==
  IF k = 0 THEN this
  ELSE M3Switch_dispatchKeyDown(M3Switch__handleKeyDown(this, key), key, k - 1)

\* new M3Button() on an element without attributes
M3Button_constructor ==
  [isConnected |-> FALSE,
   attributes |-> [name \in {"disabled", "loading", "role", "tabindex",
                             "aria-disabled", "aria-busy"} |-> << >>],
   shadowRoot |-> [disabled |-> FALSE, loading |-> FALSE],
   binds |-> 0,
   listeners |-> [click |-> << >>, keydown |-> << >>, mousedown |-> << >>],
   dispatched |-> << >>]

\* M3Button._render, as far as the disabled and loading attributes go
M3Button__render(this) ==
  [this EXCEPT !.shadowRoot = [disabled |-> hasAttribute(this, "disabled"),
                               loading |-> hasAttribute(this, "loading")]]

M3Button__updateAccessibility(this) ==
  LET disabled == hasAttribute(this, "disabled")
      loading == hasAttribute(this, "loading")
  IN [this EXCEPT
        !.attributes["role"] = << "button" >>,
        !.attributes["tabindex"] = IF disabled THEN << "-1" >> ELSE << "0" >>,
        !.attributes["aria-disabled"] = IF disabled THEN << "true" >> ELSE << >>,
        !.attributes["aria-busy"] = IF loading THEN << "true" >> ELSE << >>]

M3Button_attributeChangedCallback(this, name, oldValue, newValue) ==
  IF oldValue # newValue
  THEN M3Button__updateAccessibility(M3Button__render(this))
  ELSE this

\* Element.setAttribute and removeAttribute on an observed attribute of an
\* m3-button, with the attributeChangedCallback the browser then makes
M3Button_setAttribute(this, name, value) ==
  M3Button_attributeChangedCallback(
    [this EXCEPT !.attributes[name] = << value >>],
    name, this.attributes[name], << value >>)
M3Button_removeAttribute(this, name) ==
  IF ~hasAttribute(this, name) THEN this
  ELSE M3Button_attributeChangedCallback(
         [this EXCEPT !.attributes[name] = << >>],
         name, this.attributes[name], << >>)

M3Button_setLoading(this, loading) ==
  IF loading THEN M3Button_setAttribute(this, "loading", "")
  ELSE M3Button_removeAttribute(this, "loading")

M3Button_setDisabled(this, disabled) ==
  IF disabled THEN M3Button_setAttribute(this, "disabled", "")
  ELSE M3Button_removeAttribute(this, "disabled")

\* every listener is a function just made by bind and kept nowhere
M3Button__setupEventListeners(this) ==
  [this EXCEPT
     !.binds = @ + 3,
     !.listeners.click = addEventListener(@, this.binds + 1),
     !.listeners.keydown = addEventListener(@, this.binds + 2),
     !.listeners.mousedown = addEventListener(@, this.binds + 3)]

\* the functions removed are the methods themselves, number 0
M3Button__cleanupEventListeners(this) ==
  [this EXCEPT
     !.listeners.click = removeEventListener(@, << 0 >>),
     !.listeners.keydown = removeEventListener(@, << 0 >>),
     !.listeners.mousedown = removeEventListener(@, << 0 >>)]

M3Button_connectedCallback(this) ==
  M3Button__updateAccessibility(M3Button__setupEventListeners(this))

M3Button_disconnectedCallback(this) == M3Button__cleanupEventListeners(this)

\* the ripple that window.M3.createRipple draws unless the button is loading
\* is a child of the shadow tree and is left out
M3Button__handleClick(this) ==
  IF hasAttribute(this, "disabled") THEN this
  ELSE [this EXCEPT !.dispatched = Append(@, [type |-> "m3-button-click"])]

\* a click event on the element, from the user or from this.click()
RECURSIVE M3Button_dispatchClick(_, _)
M3Button_dispatchClick(this, k) ==
  IF k = 0 THEN this
  ELSE M3Button_dispatchClick(M3Button__handleClick(this), k - 1)

M3Button__handleKeyDown(this, key) ==
  IF hasAttribute(this, "disabled") THEN this
  ELSE IF key = "Enter" \/ key = " "
  THEN M3Button_dispatchClick(this, Len(this.listeners.click))
  ELSE this

RECURSIVE M3Button_dispatchKeyDown(_, _, _)
M3Button_dispatchKeyDown(this, key, k) ==
  IF k = 0 THEN this
  ELSE M3Button_dispatchKeyDown(M3Button__handleKeyDown(this, key), key, k - 1)

(***************************************************************************)
(* ThemeEngine: class M3ThemeEngine with the script that makes             *)
(* window.M3Theme, and the colour-extractor panel of M3ColorExtractor.     *)
(* The page is a record w:                                                 *)
(*   scriptRan        whether the script of switch.js has run              *)
(*   domContentLoaded whether DOMContentLoaded has fired                   *)
(*   engine           the object new M3ThemeEngine() allocates, << >>      *)
(*                    before                                               *)
(*   M3Theme          whether window.M3Theme refers to it                  *)
(*   domListener      whether the DOMContentLoaded listener is added       *)
(*   mediaListener    whether the prefers-color-scheme listener is added   *)
(*   root             document.documentElement: data-theme and the custom  *)
(*                    properties of its style                              *)
(*   localStorage     the items m3-theme-data and m3-wallpaper-url         *)
(*   prefersDark      matchMedia('(prefers-color-scheme: dark)').matches   *)
(*   images           the Image objects that are loading, oldest first     *)
(*   dispatched       the events dispatched on window by the current       *)
(*                    handler                                              *)
(*   alert            the alert the current handler has shown              *)
(*   panel            the closure variables and elements of the extractor  *)
(*                    panel                                                *)
(*   requested        the last applyImageTheme request made, and whether a *)
(*                    load for it has failed                               *)
(* A method that may throw yields an outcome with the page it leaves.      *)
(* A scheme is a function from its keys; every value is a string but that  *)
(* of extractedColors.  An image is the byte array getImageData gives.     *)
(***************************************************************************)
DefaultSeed == << "#", "6", "7", "5", "0", "A", "4" >>
OriginalLabel == "extract"
BusyLabel == "extracting"

Completed(w, v) == [status |-> "returned", value |-> v, w |-> w]
Aborted(w, e) == [status |-> "threw", value |-> e, w |-> w]
This(w) == w.engine[1]

\* str.replace(/[A-Z]/g, letter => `-${letter.toLowerCase()}`) on the role
\* names
kebabCase ==
  [primary |-> "primary", onPrimary |-> "on-primary",
   primaryContainer |-> "primary-container",
   onPrimaryContainer |-> "on-primary-container",
   secondary |-> "secondary", onSecondary |-> "on-secondary",
   secondaryContainer |-> "secondary-container",
   onSecondaryContainer |-> "on-secondary-container",
   tertiary |-> "tertiary", onTertiary |-> "on-tertiary",
   tertiaryContainer |-> "tertiary-container",
   onTertiaryContainer |-> "on-tertiary-container",
   surface |-> "surface", surfaceDim |-> "surface-dim",
   surfaceBright |-> "surface-bright",
   surfaceContainerLowest |-> "surface-container-lowest",
   surfaceContainerLow |-> "surface-container-low",
   surfaceContainer |-> "surface-container",
   surfaceContainerHigh |-> "surface-container-high",
   surfaceContainerHighest |-> "surface-container-highest",
   onSurface |-> "on-surface", onSurfaceVariant |-> "on-surface-variant",
   outline |-> "outline", outlineVariant |-> "outline-variant",
   error |-> "error", onError |-> "on-error",
   errorContainer |-> "error-container",
   onErrorContainer |-> "on-error-container"]
\* `--m3-sys-${this.kebabCase(key)}`
cssVar(key) == << "--m3-sys-", kebabCase[key] >>

\* the keys generateSchemeFromImage adds to a scheme
SchemeExtras == {"source", "imageUrl", "extractedColors"}
\* the keys of a scheme whose value is a string starting with "#"
colourKeys(scheme) ==
  {key \in DOMAIN scheme \ SchemeExtras :
     Len(scheme[key]) > 0 /\ scheme[key][1] = "#"}

\* `${seedColor}-${isDark ? 'dark' : 'light'}`
schemeKeyOf(seedColor, isDark) ==
  seedColor \o << "-" >>
    \o (IF isDark THEN << "d", "a", "r", "k" >>
        ELSE << "l", "i", "g", "h", "t" >>)

M3ThemeEngine_getThemeInfo(w) ==
  [seed |-> This(w).currentSeed,
   isDark |-> This(w).isDark,
   scheme |-> This(w).currentScheme,
   customSchemes |->
     [j \in 1..Len(This(w).customSchemes) |-> This(w).customSchemes[j][1]]]

M3ThemeEngine_dispatchThemeChange(w) ==
  [w EXCEPT !.dispatched =
     Append(@, [type |-> "m3-theme-change",
                detail |-> M3ThemeEngine_getThemeInfo(w)])]

\* the item is the JSON text of seed, isDark and scheme, kept here as the
\* value JSON.parse gives back; the timestamp is left out
M3ThemeEngine_saveToLocalStorage(w) ==
  [w EXCEPT !.localStorage.themeData =
     << [seed |-> This(w).currentSeed,
         isDark |-> This(w).isDark,
         scheme |-> This(w).currentScheme] >>]

\* applyScheme(scheme), scheme being << >> for null
M3ThemeEngine_applyScheme(w, scheme) ==
  IF scheme = << >> THEN w
  ELSE
    LET s == scheme[1]
        written == {cssVar(key) : key \in colourKeys(s)}
        style ==
          [name \in DOMAIN w.root.style \cup written |->
             IF name \in written
             THEN s[CHOOSE key \in colourKeys(s) : cssVar(key) = name]
             ELSE w.root.style[name]]
        surface == IF "surface" \in DOMAIN s THEN s["surface"] ELSE << >>
        rgb == hexToRgb(surface)
        isDark == /\ Len(surface) > 0
                  /\ relativeLuminance(rgb.r, rgb.g, rgb.b) < 500000
        primary == IF "primary" \in DOMAIN s THEN s["primary"] ELSE << >>
    IN M3ThemeEngine_dispatchThemeChange(
         M3ThemeEngine_saveToLocalStorage(
           [w EXCEPT
              !.engine[1].currentScheme = scheme,
              !.root.style = style,
              !.root.dataTheme = IF isDark THEN << "dark" >> ELSE << >>,
              !.engine[1].isDark = isDark,
              !.engine[1].currentSeed =
                IF Len(primary) > 0 THEN primary ELSE @]))

M3ThemeEngine_generateSchemeFromSeed(w, seedColor, isDark) ==
  LET w1 == [w EXCEPT !.engine[1].currentSeed = seedColor,
                      !.engine[1].isDark = isDark]
  IN CHOOSE outcome \in
       {IF scheme.status = "threw" THEN Aborted(w1, scheme.value)
        ELSE Completed(
               [w1 EXCEPT
                  !.engine[1].currentScheme = << scheme.value >>,
                  !.engine[1].customSchemes =
                    colorMapSet(@, schemeKeyOf(seedColor, isDark),
                                scheme.value)],
               scheme.value) :
          scheme \in {generateSchemeFromColor(seedColor, isDark)}} :
       TRUE

\* generateSchemeFromSeed and applyScheme of its scheme, as initCSSVariables,
\* toggleTheme and resetToDefault make them
generateAndApply(w, seedColor, isDark) ==
  CHOOSE outcome \in
    {IF generated.status = "threw" THEN generated
     ELSE Completed(
            M3ThemeEngine_applyScheme(generated.w, << generated.value >>),
            Null) :
       generated \in {M3ThemeEngine_generateSchemeFromSeed(w, seedColor, isDark)}} :
    TRUE

M3ThemeEngine_initCSSVariables(w) ==
  generateAndApply(w, This(w).currentSeed, This(w).isDark)

\* toggleTheme(forceDark), forceDark being << >> for null
M3ThemeEngine_toggleTheme(w, forceDark) ==
  LET willBeDark == IF forceDark # << >> THEN forceDark[1] ELSE ~This(w).isDark
  IN generateAndApply(w, This(w).currentSeed, willBeDark)

M3ThemeEngine_watchSystemTheme(w) ==
  LET hasManualTheme == w.localStorage.themeData # << >> IN
  IF hasManualTheme THEN Completed(w, Null)
  ELSE CHOOSE outcome \in
         {IF initial.status = "threw" THEN initial
          ELSE Completed([initial.w EXCEPT !.mediaListener = TRUE], Null) :
            initial \in {IF w.prefersDark
                         THEN M3ThemeEngine_toggleTheme(w, << TRUE >>)
                         ELSE Completed(w, Null)}} :
         TRUE

\* the listener watchSystemTheme adds to the media query
mediaChangeListener(w, matches) ==
  IF w.localStorage.themeData = << >>
  THEN M3ThemeEngine_toggleTheme(w, << matches >>)
  ELSE Completed(w, Null)

M3ThemeEngine_constructor(w) ==
  CHOOSE outcome \in
    {IF initialised.status = "threw" THEN initialised
     ELSE M3ThemeEngine_watchSystemTheme(initialised.w) :
       initialised \in
         {M3ThemeEngine_initCSSVariables(
            [w EXCEPT !.engine =
               << [currentSeed |-> DefaultSeed,
                   isDark |-> FALSE,
                   customSchemes |-> << >>,
                   currentScheme |-> << >>] >>])}} :
    TRUE

\* the statements of the script: window.M3Theme = new M3ThemeEngine(), then
\* document.addEventListener('DOMContentLoaded', ...); a constructor that
\* throws ends the script
themeScript(w) ==
  CHOOSE after \in
    {IF constructed.status = "threw"
     THEN [constructed.w EXCEPT !.scriptRan = TRUE]
     ELSE [constructed.w EXCEPT !.scriptRan = TRUE,
                                !.M3Theme = TRUE,
                                !.domListener = TRUE] :
       constructed \in {M3ThemeEngine_constructor(w)}} :
    TRUE

M3ThemeEngine_loadFromLocalStorage(w) ==
  LET saved == w.localStorage.themeData IN
  IF saved = << >> THEN Completed(w, Null)
  ELSE LET themeData == saved[1] IN
       IF themeData.scheme # << >> /\ Len(themeData.seed) > 0
       THEN Completed(
              M3ThemeEngine_applyScheme(
                [w EXCEPT !.engine[1].currentSeed = themeData.seed,
                          !.engine[1].isDark = themeData.isDark,
                          !.engine[1].currentScheme = themeData.scheme],
                themeData.scheme),
              themeData)
       ELSE Completed(w, Null)

M3ThemeEngine_resetToDefault(w) ==
  CHOOSE outcome \in
    {IF applied.status = "threw" THEN applied
     ELSE Completed([applied.w EXCEPT !.localStorage.themeData = << >>,
                                      !.localStorage.wallpaperUrl = << >>],
                    Null) :
       applied \in {generateAndApply(w, DefaultSeed, FALSE)}} :
    TRUE

\* M3ColorExtractor.extractFromImageUrl: an Image with onload and onerror
\* starts loading; callback says whose callback it carries
M3ColorExtractor_extractFromImageUrl(w, imageUrl, callback, colorCount) ==
  [w EXCEPT !.images =
     Append(@, [src |-> imageUrl, onload |-> "extractFromImageUrl",
                onerror |-> TRUE, callback |-> callback,
                colorCount |-> colorCount])]

\* M3ColorExtractor.extractFromImage: the canvas hands the image's bytes to
\* extractColorsFromPixels
M3ColorExtractor_extractFromImage(img, colorCount) ==
  extractColorsFromPixels(img, colorCount)

M3ThemeEngine_generateSchemeFromImage(w, imageUrl, isDark) ==
  M3ColorExtractor_extractFromImageUrl(
    w, imageUrl,
    [of |-> "applyImageTheme", imageUrl |-> imageUrl, isDark |-> isDark], 5)

\* applyImageTheme(imageUrl, isDark), isDark being << >> for null
M3ThemeEngine_applyImageTheme(w, imageUrl, isDark) ==
  LET willBeDark == IF isDark # << >> THEN isDark[1] ELSE This(w).isDark
  IN M3ThemeEngine_generateSchemeFromImage(w, imageUrl, willBeDark)

\* the callback applyImageTheme passes, scheme being << >> for null
applyImageTheme_callback(w, imageUrl, scheme) ==
  IF scheme = << >> THEN w
  ELSE [M3ThemeEngine_applyScheme(w, scheme) EXCEPT
          !.localStorage.wallpaperUrl = << imageUrl >>,
          !.dispatched =
            Append(@, [type |-> "m3-wallpaper-applied",
                       detail |-> [imageUrl |-> imageUrl, scheme |-> scheme]])]

\* obj.key = value
setProperty(obj, key, value) ==
  [k \in DOMAIN obj \cup {key} |-> IF k = key THEN value ELSE obj[k]]

\* the callback generateSchemeFromImage passes to extractFromImageUrl; the
\* scheme it writes to is the object that currentScheme and customSchemes
\* hold since generateSchemeFromSeed
schemeFromImage(generated, primaryColor, callback, colors) ==
  IF generated.status = "threw" THEN generated
  ELSE
    LET scheme ==
          setProperty(
            setProperty(
              setProperty(generated.value, "source", "image"),
              "imageUrl", callback.imageUrl),
            "extractedColors", colors)
    IN Completed(
         applyImageTheme_callback(
           [generated.w EXCEPT
              !.engine[1].currentScheme = << scheme >>,
              !.engine[1].customSchemes =
                colorMapSet(@, schemeKeyOf(primaryColor, callback.isDark),
                            scheme)],
           callback.imageUrl, << scheme >>),
         Null)
generateSchemeFromImage_callback(w, callback, colors) ==
  IF Len(colors) = 0
  THEN Completed(applyImageTheme_callback(w, callback.imageUrl, << >>), Null)
  ELSE
    CHOOSE outcome \in
      UNION
        {{schemeFromImage(generated, primaryColor, callback, colors) :
            generated \in
              {M3ThemeEngine_generateSchemeFromSeed(w, primaryColor,
                                                    callback.isDark)}} :
           primaryColor \in {extractPrimaryColor(colors)}} :
      TRUE

\* the first outcome that threw, or none
firstThrown(outcomes) ==
  IF \E i \in 1..Len(outcomes) : outcomes[i].status = "threw"
  THEN << outcomes[CHOOSE i \in 1..Len(outcomes) :
                     /\ outcomes[i].status = "threw"
                     /\ \A j \in 1..(i - 1) : outcomes[j].status = "returned"] >>
  ELSE << >>

\* M3HCTColor.generateDynamicPalette: the object literal, given the outcome
\* of each toHex() call and of generateTonalPalette, in the order written
dynamicPaletteOf(parts) ==
  IF firstThrown(parts) # << >> THEN firstThrown(parts)[1]
  ELSE Returned([primary |-> parts[1].value,
                 secondary |-> parts[2].value,
                 tertiary |-> parts[3].value,
                 neutral |-> parts[4].value,
                 neutralVariant |-> parts[5].value,
                 error |-> ErrorLight,
                 palette |-> parts[6].value])
generateDynamicPalette(seedColor) ==
  CHOOSE outcome \in
    UNION
      {{dynamicPaletteOf(parts) :
          parts \in {<< toHex(seedHct),
                        toHex(adjustHue(seedHct, T(60))),
                        toHex(adjustHue(seedHct, T(120))),
                        toHex(adjustChroma(seedHct, T(-30))),
                        toHex(adjustChroma(seedHct, T(-15))),
                        generateTonalPalette(seedHct) >>}} :
         seedHct \in {fromHex(seedColor)}} :
    TRUE

\* M3ColorExtractor.generateColorSchemeFromImage: the object literal, given
\* the colours, the primary colour and the outcomes of generateDynamicPalette
\* and of the two generateSchemeFromColor calls
colorSchemeOf(colors, primaryColor, parts) ==
  IF firstThrown(parts) # << >> THEN firstThrown(parts)[1]
  ELSE Returned([primary |-> primaryColor,
                 colors |-> colors,
                 palette |-> parts[1].value.palette,
                 scheme |-> [light |-> parts[2].value,
                             dark |-> parts[3].value]])
generateColorSchemeFromImage(img) ==
  CHOOSE outcome \in
    UNION
      {UNION
         {{colorSchemeOf(colors, primaryColor, parts) :
             parts \in
               {CHOOSE made \in
                  {IF dynamicPalette.status = "threw" THEN << dynamicPalette >>
                   ELSE << dynamicPalette,
                           generateSchemeFromColor(primaryColor, FALSE),
                           generateSchemeFromColor(primaryColor, TRUE) >> :
                     dynamicPalette \in {generateDynamicPalette(primaryColor)}} :
                  TRUE}} :
            primaryColor \in {extractPrimaryColor(colors)}} :
         colors \in {M3ColorExtractor_extractFromImage(img, 8)}} :
    TRUE

\* M3ColorExtractor.updateColorPalette: the content of the palette element
updateColorPalette(colors) ==
  IF Len(colors) = 0 THEN [placeholder |-> "failed", items |-> << >>]
  ELSE CHOOSE palette \in
         {[placeholder |-> "none",
           items |-> [i \in 1..Len(colors) |->
                        [color |-> colors[i],
                         textColor |-> getAccessibleTextColor(colors[i]),
                         isPrimary |-> colors[i] = primaryColor]]] :
            primaryColor \in {extractPrimaryColor(colors)}} :
         TRUE

\* the change listeners of the URL field and, through the FileReader, of
\* the file field
panel_urlChange(w, value) ==
  IF value # ""
  THEN [w EXCEPT !.panel.currentImageUrl = value, !.panel.preview = value]
  ELSE w

\* the click listener of the extract button
panel_extractClick(w) ==
  IF w.panel.currentImageUrl = ""
  THEN [w EXCEPT !.alert = << "choose an image first" >>]
  ELSE M3ColorExtractor_extractFromImageUrl(
         [w EXCEPT !.panel.extractBtn = [disabled |-> TRUE,
                                         innerHTML |-> BusyLabel]],
         w.panel.currentImageUrl,
         [of |-> "panel", imageUrl |-> w.panel.currentImageUrl,
          isDark |-> FALSE],
         5)

\* the callback the extract button passes to extractFromImageUrl: a second
\* Image, with onload and without onerror, starts loading
panel_callback(w, colors) ==
  [w EXCEPT
     !.panel.currentColors = colors,
     !.panel.palette = updateColorPalette(colors),
     !.images =
       Append(@, [src |-> w.panel.currentImageUrl, onload |-> "panel",
                  onerror |-> FALSE,
                  callback |-> [of |-> "panel",
                                imageUrl |-> w.panel.currentImageUrl,
                                isDark |-> FALSE],
                  colorCount |-> 8])]

\* img.onload of the second Image
panel_onload(w, img) ==
  CHOOSE outcome \in
    {IF currentScheme.status = "threw" THEN Aborted(w, currentScheme.value)
     ELSE Completed(
            [w EXCEPT
               !.panel.currentScheme = << currentScheme.value >>,
               !.panel.schemePreview = << currentScheme.value >>,
               !.panel.extractBtn = [disabled |-> FALSE,
                                     innerHTML |-> OriginalLabel]],
            Null) :
       currentScheme \in {generateColorSchemeFromImage(img)}} :
    TRUE

\* the click listeners of the two apply buttons
panel_applyClick(w, mode) ==
  IF w.panel.currentScheme # << >> /\ w.M3Theme
  THEN [M3ThemeEngine_applyScheme(
          w, << w.panel.currentScheme[1].scheme[mode] >>)
          EXCEPT !.alert = << "theme applied" >>]
  ELSE w

\* the load event of an Image, img being its bytes
imageOnload(w, image, img) ==
  IF image.onload = "panel" THEN panel_onload(w, img)
  ELSE CHOOSE outcome \in
         {IF image.callback.of = "panel"
          THEN Completed(panel_callback(w, colors), Null)
          ELSE generateSchemeFromImage_callback(w, image.callback, colors) :
            colors \in
              {M3ColorExtractor_extractFromImage(img, image.colorCount)}} :
         TRUE

\* the error event of an Image
imageOnerror(w, image) ==
  IF ~image.onerror THEN Completed(w, Null)
  ELSE IF image.callback.of = "panel"
  THEN Completed(panel_callback(w, << >>), Null)
  ELSE generateSchemeFromImage_callback(w, image.callback, << >>)

\* the page before any script has run
pageLoading ==
  [scriptRan |-> FALSE,
   domContentLoaded |-> FALSE,
   engine |-> << >>,
   M3Theme |-> FALSE,
   domListener |-> FALSE,
   mediaListener |-> FALSE,
   root |-> [dataTheme |-> << >>, style |-> << >>],
   localStorage |-> [themeData |-> << >>, wallpaperUrl |-> << >>],
   prefersDark |-> FALSE,
   images |-> << >>,
   dispatched |-> << >>,
   alert |-> << >>,
   panel |-> [currentImageUrl |-> "",
              currentColors |-> << >>,
              currentScheme |-> << >>,
              extractBtn |-> [disabled |-> FALSE, innerHTML |-> OriginalLabel],
              preview |-> "",
              palette |-> [placeholder |-> "initial", items |-> << >>],
              schemePreview |-> << >>],
   requested |-> << >>,
   userChose |-> FALSE]

(***************************************************************************)
(* The caller: one call of a public operation at a time.                   *)
(*   pc       "idle" before a call, "returned" when its outcome is known   *)
(*   op       the operation of the last call                               *)
(*   args     its arguments                                                *)
(*   result   its outcome                                                  *)
(*   observed the generateSchemeFromColor calls seen so far, each with its *)
(*            seed, mode and outcome                                       *)
(***************************************************************************)
VARIABLES pc, op, args, result, observed

\* the page beside the caller:
\*   m3switch an m3-switch element: el the element, op the last operation
\*            on it, before the element as that operation found it
\*   m3button an m3-button element, likewise
\*   page     the page of the theme engine and the extractor panel
VARIABLES m3switch, m3button, page
elements == << m3switch, m3button >>
vars == << pc, op, args, result, observed, m3switch, m3button, page >>

\* channel arguments: every value of one channel, in each position
Wide == (0 - ChannelOver)..(255 + ChannelOver)
RgbInputs ==
  {<< c, 9, 164 >> : c \in Wide}
    \cup {<< 164, c, 9 >> : c \in Wide}
    \cup {<< 9, 164, c >> : c \in Wide}

\* string arguments: well-formed and malformed in length, prefix and digits
Prefixes == {<< >>, << "#" >>, << "#", "#" >>}
Pairs == {<< "0", "F" >>, << "a", "4" >>, << "g", "1" >>, << "5" >>}
Suffixes == {<< >>, << "0" >>}
HexInputs ==
  {p \o a \o b \o c \o x :
     p \in Prefixes, a \in Pairs, b \in Pairs, c \in Pairs, x \in Suffixes}

\* seed colours: canonical, lowercase without "#", and a saturated one
Seeds ==
  {<< "#", "6", "7", "5", "0", "A", "4" >>,
   << "6", "7", "5", "0", "a", "4" >>,
   << "#", "F", "F", "0", "0", "0", "0" >>}

\* HCT arguments
HctInputs ==
  {M3HCTColor(T(h), T(c), T(t)) :
     h \in {0, 120, 282}, c \in {0, 48, 100}, t \in {0, 40, 100}}

\* colour strings: every grey, and the seeds
ColourInputs == {rgbToHex(c, c, c) : c \in 0..255} \cup Seeds

\* pairs of colour strings: spellings of one colour, equal and unequal
\* luminances
ContrastInputs ==
  Seeds \cup
  {<< "#", "6", "7", "5", "0", "a", "4" >>,
   << "F", "F", "0", "0", "0", "0" >>,
   << "#", "0", "0", "0", "0", "0", "0" >>,
   << "#", "F", "F", "F", "F", "F", "F" >>,
   << "#", "7", "6", "7", "6", "7", "6" >>,
   << "#", "0", "0", "F", "F", "0", "0" >>}

\* changes of a component, in either direction and past a full turn
Deltas == {T(-400), T(-150), T(-30), 0, T(30), T(150), T(400)}

Init ==
  /\ pc = "idle"
  /\ op = "none"
  /\ args = << >>
  /\ result = Returned(Null)
  /\ observed = {}
  /\ m3switch = [el |-> M3Switch_constructor, op |-> "new",
                 before |-> M3Switch_constructor]
  /\ m3button = [el |-> M3Button_constructor, op |-> "new",
                 before |-> M3Button_constructor]
  /\ page = pageLoading

\* the caller records an outcome
Record(name, arguments, outcome) ==
  /\ pc = "idle"
  /\ pc' = "returned"
  /\ op' = name
  /\ args' = arguments
  /\ result' = outcome
\* a call of an operation that leaves the page alone
Call(name, arguments, outcome) ==
  /\ Record(name, arguments, outcome)
  /\ UNCHANGED << elements, page >>

CallRgbToHex ==
  \E t \in RgbInputs :
    /\ Call("rgbToHex", t, Returned(rgbToHex(t[1], t[2], t[3])))
    /\ UNCHANGED observed

CallHexToRgb ==
  \E hex \in HexInputs \cup Seeds :
    /\ Call("hexToRgb", << hex >>, Returned(hexToRgb(hex)))
    /\ UNCHANGED observed

CallUtilsHexToRgb ==
  \E hex \in HexInputs \cup Seeds :
    /\ Call("M3ColorUtils.hexToRgb", << hex >>, Returned(M3ColorUtils_hexToRgb(hex)))
    /\ UNCHANGED observed

\* hexToRgb applied to the string rgbToHex has just returned
CallHexToRgbOfRgbToHex ==
  /\ pc = "returned"
  /\ op = "rgbToHex"
  /\ op' = "hexToRgb(rgbToHex)"
  /\ result' = Returned(hexToRgb(result.value))
  /\ UNCHANGED << pc, args, observed, elements, page >>

CallFromHex ==
  \E hex \in Seeds :
    /\ Call("fromHex", << hex >>, Returned(fromHex(hex)))
    /\ UNCHANGED observed

CallToRgb ==
  \E color \in HctInputs :
    /\ Call("toRgb", << color >>, Returned(toRgb(color)))
    /\ UNCHANGED observed

CallToHex ==
  \E color \in HctInputs :
    /\ Call("toHex", << color >>, toHex(color))
    /\ UNCHANGED observed

CallGenerateTonalPalette ==
  \E color \in HctInputs :
    /\ Call("generateTonalPalette", << color >>, generateTonalPalette(color))
    /\ UNCHANGED observed

CallGenerateSchemeFromColor ==
  \E seed \in Seeds, isDark \in BOOLEAN :
    \E outcome \in {generateSchemeFromColor(seed, isDark)} :
      LET entry == [seed |-> seed, isDark |-> isDark, outcome |-> outcome] IN
      /\ Cardinality(observed \cup {entry}) <= MaxLog
      /\ Call("generateSchemeFromColor", << seed, isDark >>, outcome)
      /\ observed' = observed \cup {entry}

CallGetAccessibleTextColor ==
  /\ pc = "idle"
  /\ \E hex \in ColourInputs :
       /\ Call("getAccessibleTextColor", << hex >>,
               Returned(getAccessibleTextColor(hex)))
       /\ UNCHANGED observed

CallUtilsGetAccessibleTextColor ==
  /\ pc = "idle"
  /\ \E hex \in ColourInputs :
       /\ Call("M3ColorUtils.getAccessibleTextColor", << hex >>,
               Returned(M3ColorUtils_getAccessibleTextColor(hex)))
       /\ UNCHANGED observed

CallContrastRatio ==
  /\ pc = "idle"
  /\ \E color1 \in ContrastInputs, color2 \in ContrastInputs :
       /\ Call("contrastRatio", << color1, color2 >>,
               Returned(contrastRatio(color1, color2)))
       /\ UNCHANGED observed

\* the adjust operations read their argument and build a new colour; the
\* argument is recorded as the call leaves it
CallAdjustHue ==
  /\ pc = "idle"
  /\ \E color \in HctInputs, delta \in Deltas :
       /\ Call("adjustHue", << color, delta >>, Returned(adjustHue(color, delta)))
       /\ UNCHANGED observed

CallAdjustChroma ==
  /\ pc = "idle"
  /\ \E color \in HctInputs, delta \in Deltas :
       /\ Call("adjustChroma", << color, delta >>,
               Returned(adjustChroma(color, delta)))
       /\ UNCHANGED observed

CallAdjustTone ==
  /\ pc = "idle"
  /\ \E color \in HctInputs, delta \in Deltas :
       /\ Call("adjustTone", << color, delta >>, Returned(adjustTone(color, delta)))
       /\ UNCHANGED observed

\* the caller is done with the outcome
Return ==
  /\ pc = "returned"
  /\ pc' = "idle"
  /\ op' = "none"
  /\ args' = << >>
  /\ result' = Returned(Null)
  /\ UNCHANGED << observed, elements, page >>

Next ==
  \/ CallRgbToHex
  \/ CallHexToRgb
  \/ CallUtilsHexToRgb
  \/ CallHexToRgbOfRgbToHex
  \/ CallFromHex
  \/ CallToRgb
  \/ CallToHex
  \/ CallGenerateTonalPalette
  \/ CallGenerateSchemeFromColor
  \/ CallGetAccessibleTextColor
  \/ CallUtilsGetAccessibleTextColor
  \/ CallContrastRatio
  \/ CallAdjustHue
  \/ CallAdjustChroma
  \/ CallAdjustTone
  \/ Return

Spec == Init /\ [][Next]_vars

(***************************************************************************)
(* The caller of the wallpaper extractor.                                  *)
(***************************************************************************)
\* pixels: four of neighbouring buckets, whose contrast with each other is
\* below 1.5, one with alpha exactly 128; a light one at the top of the
\* channel range; a transparent one with alpha 127
PixelA == << 111, 95, 175, 128 >>
PixelB == << 96, 96, 160, 255 >>
PixelC == << 112, 80, 160, 255 >>
PixelD == << 96, 80, 176, 255 >>
PixelE == << 255, 250, 241, 255 >>
PixelX == << 255, 0, 0, 127 >>
PixelSet == {PixelA, PixelB, PixelC, PixelD, PixelE, PixelX}
PixelOrders ==
  {<< PixelA, PixelB, PixelC, PixelD, PixelE, PixelX >>,
   << PixelX, PixelE, PixelD, PixelC, PixelB, PixelA >>,
   << PixelC, PixelX, PixelA, PixelE, PixelB, PixelD >>}

\* the byte array of a sequence of pixels
RECURSIVE Flatten(_)
Flatten(ps) == IF Len(ps) = 0 THEN << >> ELSE Head(ps) \o Flatten(Tail(ps))
\* n copies of one pixel
Repeat(pixel, n) == Flatten([k \in 1..n |-> pixel])

\* images: runs of at most MaxRepeat copies of each pixel, in one of the
\* orders; and every sequence of at most MaxPixels pixels
PixelInputs ==
  {Repeat(order[1], m[1]) \o Repeat(order[2], m[2]) \o Repeat(order[3], m[3])
     \o Repeat(order[4], m[4]) \o Repeat(order[5], m[5]) \o Repeat(order[6], m[6]) :
       order \in PixelOrders, m \in [1..6 -> 0..MaxRepeat]}
    \cup {Flatten(ps) : ps \in UNION {[1..n -> PixelSet] : n \in 0..MaxPixels}}

CallExtractColorsFromPixels ==
  /\ pc = "idle"
  /\ \E pixels \in PixelInputs, colorCount \in 0..MaxCount :
       /\ Call("extractColorsFromPixels", << pixels, colorCount >>,
               Returned(extractColorsFromPixels(pixels, colorCount)))
       /\ UNCHANGED observed

ExtractorNext ==
  \/ CallExtractColorsFromPixels
  \/ Return

ExtractorSpec == Init /\ [][ExtractorNext]_vars

(***************************************************************************)
(* The caller of extractPrimaryColor.                                      *)
(***************************************************************************)
\* lists of colours: two of the highest score, a saturated one of a lower
\* score, a light grey, and black, whose saturation is NaN
CandidateColors ==
  {<< "#", "6", "0", "5", "0", "A", "0" >>,
   << "#", "C", "0", "4", "0", "4", "0" >>,
   << "#", "F", "F", "0", "0", "0", "0" >>,
   << "#", "F", "0", "F", "0", "F", "0" >>,
   << "#", "0", "0", "0", "0", "0", "0" >>}
ColorLists == UNION {[1..n -> CandidateColors] : n \in 0..MaxColors}

\* extractPrimaryColor reads its argument, maps it to a new array and sorts
\* that one; the argument is recorded as the call leaves it
CallExtractPrimaryColor ==
  /\ pc = "idle"
  /\ \E colors \in ColorLists :
       /\ Call("extractPrimaryColor", << colors >>,
               Returned(extractPrimaryColor(colors)))
       /\ UNCHANGED observed

PrimaryNext ==
  \/ CallExtractPrimaryColor
  \/ Return

PrimarySpec == Init /\ [][PrimaryNext]_vars

(***************************************************************************)
(* The page around an m3-switch: the document connects and disconnects the *)
(* element, the user clicks and types on it, scripts call its methods and  *)
(* write its checked attribute.                                            *)
(***************************************************************************)
caller == << pc, op, args, result, observed >>

\* keys the user presses
Keys == {"Enter", " ", "a"}
\* values written to the checked attribute
CheckedValues == {"", "checked"}

\* the element as an operation finds it: nothing dispatched yet
SwitchStarted == [m3switch.el EXCEPT !.dispatched = << >>]
SwitchOp(name, after) ==
  /\ m3switch' = [el |-> after, op |-> name, before |-> SwitchStarted]
  /\ UNCHANGED << caller, m3button, page >>

SwitchConnect ==
  /\ ~m3switch.el.isConnected
  /\ m3switch.el.binds + 2 <= 2 * MaxConnects
  /\ SwitchOp("connect",
              M3Switch_connectedCallback(
                [SwitchStarted EXCEPT !.isConnected = TRUE]))

SwitchDisconnect ==
  /\ m3switch.el.isConnected
  /\ SwitchOp("disconnect",
              M3Switch_disconnectedCallback(
                [SwitchStarted EXCEPT !.isConnected = FALSE]))

SwitchClick ==
  SwitchOp("click",
           M3Switch_dispatchClick(SwitchStarted,
                                  Len(SwitchStarted.listeners.click)))

SwitchKeyDown ==
  \E key \in Keys :
    SwitchOp("keydown",
             M3Switch_dispatchKeyDown(SwitchStarted, key,
                                      Len(SwitchStarted.listeners.keydown)))

SwitchToggle == SwitchOp("toggle", M3Switch_toggle(SwitchStarted))

SwitchSetChecked ==
  \E checked \in BOOLEAN :
    SwitchOp("setChecked", M3Switch_setChecked(SwitchStarted, checked))

SwitchSetDisabled ==
  \E disabled \in BOOLEAN :
    SwitchOp("setDisabled", M3Switch_setDisabled(SwitchStarted, disabled))

SwitchSetCheckedAttribute ==
  \E value \in CheckedValues :
    SwitchOp("setAttribute",
             M3Switch_setAttribute(SwitchStarted, "checked", value))

SwitchRemoveCheckedAttribute ==
  SwitchOp("removeAttribute", M3Switch_removeAttribute(SwitchStarted, "checked"))

SwitchNext ==
  \/ SwitchConnect
  \/ SwitchDisconnect
  \/ SwitchClick
  \/ SwitchKeyDown
  \/ SwitchToggle
  \/ SwitchSetChecked
  \/ SwitchSetDisabled
  \/ SwitchSetCheckedAttribute
  \/ SwitchRemoveCheckedAttribute

SwitchSpec == Init /\ [][SwitchNext]_vars

(***************************************************************************)
(* The page around an m3-button.                                           *)
(***************************************************************************)
ButtonStarted == [m3button.el EXCEPT !.dispatched = << >>]
ButtonOp(name, after) ==
  /\ m3button' = [el |-> after, op |-> name, before |-> ButtonStarted]
  /\ UNCHANGED << caller, m3switch, page >>

ButtonConnect ==
  /\ ~m3button.el.isConnected
  /\ m3button.el.binds + 3 <= 3 * MaxConnects
  /\ ButtonOp("connect",
              M3Button_connectedCallback(
                [ButtonStarted EXCEPT !.isConnected = TRUE]))

ButtonDisconnect ==
  /\ m3button.el.isConnected
  /\ ButtonOp("disconnect",
              M3Button_disconnectedCallback(
                [ButtonStarted EXCEPT !.isConnected = FALSE]))

ButtonClick ==
  ButtonOp("click",
           M3Button_dispatchClick(ButtonStarted,
                                  Len(ButtonStarted.listeners.click)))

ButtonKeyDown ==
  \E key \in Keys :
    ButtonOp("keydown",
             M3Button_dispatchKeyDown(ButtonStarted, key,
                                      Len(ButtonStarted.listeners.keydown)))

ButtonSetDisabled ==
  \E disabled \in BOOLEAN :
    ButtonOp("setDisabled", M3Button_setDisabled(ButtonStarted, disabled))

ButtonSetLoading ==
  \E loading \in BOOLEAN :
    ButtonOp("setLoading", M3Button_setLoading(ButtonStarted, loading))

ButtonNext ==
  \/ ButtonConnect
  \/ ButtonDisconnect
  \/ ButtonClick
  \/ ButtonKeyDown
  \/ ButtonSetDisabled
  \/ ButtonSetLoading

ButtonSpec == Init /\ [][ButtonNext]_vars

(***************************************************************************)
(* The page around the theme engine and the extractor panel: the script of *)
(* switch.js runs, DOMContentLoaded fires, the system preference changes,  *)
(* scripts call the methods of window.M3Theme, the user works the panel,   *)
(* images load or fail.                                                    *)
(***************************************************************************)
\* the images behind the URLs: two with colours, one transparent
Urls == {"a.png", "b.png", "t.png"}
ImageOf(url) ==
  IF url = "a.png" THEN Flatten(<< PixelB, PixelB, PixelE >>)
  ELSE IF url = "b.png" THEN Flatten(<< PixelE, << 192, 64, 64, 255 >> >>)
  ELSE Flatten(<< PixelX >>)

\* a scheme a script writes by hand, and null
HandSchemes ==
  {<< >>,
   << [primary |-> << "#", "F", "F", "0", "0", "0", "0" >>,
       surface |-> << "#", "0", "0", "0", "0", "0", "0" >>] >>}
Flags == {<< >>, << TRUE >>, << FALSE >>}

\* the page as a handler finds it.  A handler runs to its end before the
\* next starts, so no event is handled while a script looks at the outcome
\* of its call.
Begin == [page EXCEPT !.dispatched = << >>, !.alert = << >>]

RunScript ==
  /\ pc = "idle"
  /\ ~page.scriptRan
  /\ \E w \in {Begin} : page' = themeScript(w)
  /\ UNCHANGED << caller, elements >>

\* document.addEventListener('DOMContentLoaded', ...): the listener calls
\* window.M3Theme.loadFromLocalStorage()
DOMContentLoaded ==
  /\ pc = "idle"
  /\ page.scriptRan
  /\ ~page.domContentLoaded
  /\ \E w \in {[Begin EXCEPT !.domContentLoaded = TRUE]} :
       page' = IF w.domListener
                THEN M3ThemeEngine_loadFromLocalStorage(w).w
                ELSE w
  /\ UNCHANGED << caller, elements >>

\* the system preference changes
SystemThemeChange ==
  /\ pc = "idle"
  /\ \E w \in {[Begin EXCEPT !.prefersDark = ~@]} :
       page' = IF w.mediaListener
                THEN mediaChangeListener(w, w.prefersDark).w
                ELSE w
  /\ UNCHANGED << caller, elements >>

\* a script calls window.M3Theme.name(...): a TypeError while window.M3Theme
\* is undefined.  userChose records that a script or the user has made a
\* call of the theme holder that returned, requested the latest request of
\* an image theme when no other call has followed it.
ThemeCall(name, arguments, w, outcome) ==
  /\ page.scriptRan
  /\ IF ~w.M3Theme
     THEN /\ Record(name, arguments, Threw("TypeError"))
          /\ page' = w
     ELSE /\ Record(name, arguments,
                    [status |-> outcome.status, value |-> outcome.value])
          /\ page' = [outcome.w EXCEPT
                        !.userChose = TRUE,
                        !.requested =
                          IF name = "M3Theme.applyImageTheme" THEN @
                          ELSE << >>]
  /\ UNCHANGED << observed, elements >>

CallThemeGenerateSchemeFromSeed ==
  /\ pc = "idle"
  /\ \E seedColor \in Seeds, isDark \in BOOLEAN, w \in {Begin} :
       ThemeCall("M3Theme.generateSchemeFromSeed", << seedColor, isDark >>, w,
                 M3ThemeEngine_generateSchemeFromSeed(w, seedColor, isDark))

CallThemeApplyScheme ==
  /\ pc = "idle"
  /\ \E scheme \in HandSchemes, w \in {Begin} :
       ThemeCall("M3Theme.applyScheme", << scheme >>, w,
                 Completed(M3ThemeEngine_applyScheme(w, scheme), Null))

CallThemeToggleTheme ==
  /\ pc = "idle"
  /\ \E forceDark \in Flags, w \in {Begin} :
       ThemeCall("M3Theme.toggleTheme", << forceDark >>, w,
                 M3ThemeEngine_toggleTheme(w, forceDark))

\* requested records the request once applyImageTheme has taken it
CallThemeApplyImageTheme ==
  /\ pc = "idle"
  /\ Len(page.images) < MaxLoads
  /\ \E imageUrl \in Urls, isDark \in Flags, w \in {Begin} :
       ThemeCall("M3Theme.applyImageTheme", << imageUrl, isDark >>, w,
                 Completed(
                   [M3ThemeEngine_applyImageTheme(w, imageUrl, isDark)
                      EXCEPT !.requested =
                        << [imageUrl |-> imageUrl, isDark |-> isDark,
                            failed |-> FALSE] >>],
                   Null))

CallThemeResetToDefault ==
  /\ pc = "idle"
  /\ \E w \in {Begin} :
       ThemeCall("M3Theme.resetToDefault", << >>, w,
                 M3ThemeEngine_resetToDefault(w))

CallThemeLoadFromLocalStorage ==
  /\ pc = "idle"
  /\ \E w \in {Begin} :
       ThemeCall("M3Theme.loadFromLocalStorage", << >>, w,
                 M3ThemeEngine_loadFromLocalStorage(w))

\* the user types a URL or picks a file
UrlChange ==
  /\ pc = "idle"
  /\ page.scriptRan
  /\ \E value \in Urls, w \in {Begin} : page' = panel_urlChange(w, value)
  /\ UNCHANGED << caller, elements >>

\* the user clicks the extract button; a disabled button takes no click
ExtractClick ==
  /\ pc = "idle"
  /\ page.scriptRan
  /\ ~page.panel.extractBtn.disabled
  /\ \E w \in {Begin} : page' = panel_extractClick(w)
  /\ UNCHANGED << caller, elements >>

ApplyLightClick ==
  /\ pc = "idle"
  /\ page.scriptRan
  /\ \E w \in {Begin} :
       page' = IF w.panel.currentScheme # << >> /\ w.M3Theme
                THEN [panel_applyClick(w, "light") EXCEPT
                        !.userChose = TRUE, !.requested = << >>]
                ELSE panel_applyClick(w, "light")
  /\ UNCHANGED << caller, elements >>

ApplyDarkClick ==
  /\ pc = "idle"
  /\ page.scriptRan
  /\ \E w \in {Begin} :
       page' = IF w.panel.currentScheme # << >> /\ w.M3Theme
                THEN [panel_applyClick(w, "dark") EXCEPT
                        !.userChose = TRUE, !.requested = << >>]
                ELSE panel_applyClick(w, "dark")
  /\ UNCHANGED << caller, elements >>

\* images without the i-th
Without(images, i) ==
  [j \in 1..(Len(images) - 1) |-> IF j < i THEN images[j] ELSE images[j + 1]]

\* an image has loaded
ImageLoad ==
  \E i \in 1..Len(page.images) :
    /\ pc = "idle"
    /\ \E w \in {[Begin EXCEPT !.images = Without(@, i)]},
          image \in {page.images[i]},
          img \in {ImageOf(page.images[i].src)} :
         page' = imageOnload(w, image, img).w
    /\ UNCHANGED << caller, elements >>

\* an image has failed to load
ImageError ==
  \E i \in 1..Len(page.images) :
    /\ pc = "idle"
    /\ \E image \in {page.images[i]} :
         \E w \in {[Begin EXCEPT
                      !.images = Without(@, i),
                      !.requested =
                        IF @ # << >> /\ image.callback.of = "applyImageTheme"
                        THEN << [@[1] EXCEPT !.failed = TRUE] >> ELSE @]} :
           page' = imageOnerror(w, image).w
    /\ UNCHANGED << caller, elements >>

PageNext ==
  \/ RunScript
  \/ DOMContentLoaded
  \/ SystemThemeChange
  \/ CallThemeGenerateSchemeFromSeed
  \/ CallThemeApplyScheme
  \/ CallThemeToggleTheme
  \/ CallThemeApplyImageTheme
  \/ CallThemeResetToDefault
  \/ CallThemeLoadFromLocalStorage
  \/ UrlChange
  \/ ExtractClick
  \/ ApplyLightClick
  \/ ApplyDarkClick
  \/ ImageLoad
  \/ ImageError
  \/ Return

PageSpec == Init /\ [][PageNext]_vars

(***************************************************************************)
(* Properties.                                                             *)
(***************************************************************************)
\* a string of exactly six hex digits with an optional leading "#"
WellFormedHexInput(s) ==
  \/ Len(s) = 6 /\ \A i \in 1..6 : IsHexChar(s[i])
  \/ Len(s) = 7 /\ s[1] = "#" /\ \A i \in 2..7 : IsHexChar(s[i])
\* the canonical form of a well-formed input: "#" and its digits in uppercase
CanonicalForm(s) ==
  << "#" >> \o toUpperCase(IF Len(s) = 7 THEN Tail(s) ELSE s)
ZeroRgb == [r |-> 0, g |-> 0, b |-> 0]
Done(name) == pc = "returned" /\ op = name

\* C1: for every valid seed and both modes generateSchemeFromColor returns,
\* without raising, a mapping whose keys are exactly the 28 role names, each
\* value a well-formed "#RRGGBB" string.
C1_SchemeTotal ==
  Done("generateSchemeFromColor") =>
    /\ result.status = "returned"
    /\ DOMAIN result.value = RoleNames
    /\ \A k \in RoleNames : IsCanonicalHex(result.value[k])

\* C2: generateTonalPalette returns exactly 13 strings, the i-th being the
\* colour of the input's hue and chroma at the i-th stop of
\* 0,10,20,30,40,50,60,70,80,90,95,99,100.
ToneStops == << 0, 10, 20, 30, 40, 50, 60, 70, 80, 90, 95, 99, 100 >>
C2_TonalPalette ==
  Done("generateTonalPalette") =>
    /\ result.status = "returned"
    /\ Len(result.value) = 13
    /\ \A i \in 1..13 :
         /\ IsCanonicalHex(result.value[i])
         /\ LET rgb == toRgb(M3HCTColor(args[1].hue, args[1].chroma, T(ToneStops[i])))
            IN result.value[i] = rgbToHex(rgb.r, rgb.g, rgb.b)

C5_RoundTrip ==
  /\ Done("hexToRgb(rgbToHex)")
  /\ \A i \in 1..3 : args[i] \in 0..255
  => /\ result.status = "returned"
     /\ result.value = [r |-> args[1], g |-> args[2], b |-> args[3]]

\* the round trip has been made on a triple with a two-letter channel
C5_Witness ==
  /\ Done("hexToRgb(rgbToHex)")
  /\ args = << 9, 164, 171 >>
  /\ result.value = [r |-> 9, g |-> 164, b |-> 171]

\* C6: every on* role of a generated scheme equals getAccessibleTextColor of
\* its paired base or container role of the same scheme.
OnRolePairs ==
  [onPrimary |-> "primary",
   onPrimaryContainer |-> "primaryContainer",
   onSecondary |-> "secondary",
   onSecondaryContainer |-> "secondaryContainer",
   onTertiary |-> "tertiary",
   onTertiaryContainer |-> "tertiaryContainer",
   onSurface |-> "surface",
   onSurfaceVariant |-> "surface",
   onError |-> "error",
   onErrorContainer |-> "errorContainer"]
C6_OnRolesAccessible ==
  Done("generateSchemeFromColor") =>
    /\ result.status = "returned"
    /\ \A k \in DOMAIN OnRolePairs :
         result.value[k] = getAccessibleTextColor(result.value[OnRolePairs[k]])

\* C7: outline and outlineVariant are the seed's hue and chroma at the
\* absolute tones 50 and 80 (light), 60 and 30 (dark).
HexAtTone(color, tone) ==
  LET rgb == toRgb(M3HCTColor(color.hue, color.chroma, T(tone)))
  IN rgbToHex(rgb.r, rgb.g, rgb.b)
C7_OutlineFixedTones ==
  Done("generateSchemeFromColor") =>
    /\ result.status = "returned"
    /\ result.value.outline =
         HexAtTone(fromHex(args[1]), IF args[2] THEN 60 ELSE 50)
    /\ result.value.outlineVariant =
         HexAtTone(fromHex(args[1]), IF args[2] THEN 30 ELSE 80)

\* C8: the role primary equals the seed in canonical uppercase "#RRGGBB".
C8_PrimaryIsSeed ==
  Done("generateSchemeFromColor") =>
    /\ result.status = "returned"
    /\ result.value.primary = CanonicalForm(args[1])

\* C9: two generateSchemeFromColor calls with the same seed and mode return
\* identical mappings, whatever ran before or between them.
C9_SchemeDeterministic ==
  \A e \in observed :
    /\ e.outcome.status = "returned"
    /\ \A f \in observed :
         (f.seed = e.seed /\ f.isDark = e.isDark) => f.outcome = e.outcome

\* C10: error, onError, errorContainer and onErrorContainer of a generated
\* scheme depend on the mode alone: #BA1A1A, #FFFFFF, #FFDAD6, #410002 in
\* light mode and #F2B8B5, #601410, #8C1D18, #F9DEDC in dark mode.
C10_ErrorRolesFixed ==
  Done("generateSchemeFromColor") =>
    /\ result.status = "returned"
    /\ result.value.error =
         (IF args[2] THEN << "#", "F", "2", "B", "8", "B", "5" >>
          ELSE << "#", "B", "A", "1", "A", "1", "A" >>)
    /\ result.value.onError =
         (IF args[2] THEN << "#", "6", "0", "1", "4", "1", "0" >>
          ELSE << "#", "F", "F", "F", "F", "F", "F" >>)
    /\ result.value.errorContainer =
         (IF args[2] THEN << "#", "8", "C", "1", "D", "1", "8" >>
          ELSE << "#", "F", "F", "D", "A", "D", "6" >>)
    /\ result.value.onErrorContainer =
         (IF args[2] THEN << "#", "F", "9", "D", "E", "D", "C" >>
          ELSE << "#", "4", "1", "0", "0", "0", "2" >>)

\* the relative luminance of a colour string, in millionths
LuminanceOf(hex) ==
  LET rgb == hexToRgb(hex) IN relativeLuminance(rgb.r, rgb.g, rgb.b)

\* C11: getAccessibleTextColor(x) returns exactly one of "#000000" and
\* "#FFFFFF" for every valid hex x.
C11_BlackOrWhite ==
  /\ Done("getAccessibleTextColor")
  /\ WellFormedHexInput(args[1])
  => /\ result.status = "returned"
     /\ \/ result.value = << "#", "0", "0", "0", "0", "0", "0" >>
        \/ result.value = << "#", "F", "F", "F", "F", "F", "F" >>

\* a dark background written in lowercase without "#" has got white
C11_Witness ==
  /\ Done("getAccessibleTextColor")
  /\ args[1] = << "6", "7", "5", "0", "a", "4" >>
  /\ result.value = << "#", "F", "F", "F", "F", "F", "F" >>

\* C12: getAccessibleTextColor(bg) is "#000000" whenever
\* contrastRatio(bg, black) >= 4.5; otherwise "#FFFFFF" whenever
\* contrastRatio(bg, white) >= 4.5; otherwise black if luminance(bg) > 0.5,
\* else white.  "#000000" maps to "#FFFFFF" and "#FFFFFF" to "#000000".
C12_PriorityRule ==
  /\ Done("getAccessibleTextColor")
  /\ WellFormedHexInput(args[1])
  => /\ contrastRatio(args[1], Black) >= 4500 => result.value = Black
     /\ (contrastRatio(args[1], Black) < 4500
           /\ contrastRatio(args[1], White) >= 4500) => result.value = White
     /\ (contrastRatio(args[1], Black) < 4500
           /\ contrastRatio(args[1], White) < 4500) =>
          result.value = (IF LuminanceOf(args[1]) > 500000 THEN Black ELSE White)
     /\ args[1] = Black => result.value = White
     /\ args[1] = White => result.value = Black

\* a grey that clears 4.5 against black and against white has got black
C12_Witness ==
  /\ Done("getAccessibleTextColor")
  /\ args[1] = << "#", "7", "6", "7", "6", "7", "6" >>
  /\ contrastRatio(args[1], Black) >= 4500
  /\ contrastRatio(args[1], White) >= 4500
  /\ result.value = Black

\* C13: contrastRatio(a,b) equals contrastRatio(b,a) for all valid hex
\* colours a, b, is never below 1, and is exactly 1 whenever a and b have
\* equal relative luminance, in particular when a = b.
C13_ContrastSymmetric ==
  /\ Done("contrastRatio")
  /\ WellFormedHexInput(args[1])
  /\ WellFormedHexInput(args[2])
  => /\ result.value = contrastRatio(args[2], args[1])
     /\ result.value >= 1000
     /\ LuminanceOf(args[1]) = LuminanceOf(args[2]) => result.value = 1000

\* a darker first argument has got the ratio of the lighter to the darker
C13_Witness ==
  /\ Done("contrastRatio")
  /\ args = << Black, White >>
  /\ result.value = 21000

\* C14: for every HCT colour with hue in [0,360) and every delta, positive
\* or negative, adjustHue returns a colour whose hue lies in [0,360), with
\* chroma and tone unchanged.
C14_HueWraps ==
  /\ Done("adjustHue")
  /\ args[1].hue >= 0
  /\ args[1].hue < T(360)
  => /\ result.value.hue >= 0
     /\ result.value.hue < T(360)
     /\ result.value.chroma = args[1].chroma
     /\ result.value.tone = args[1].tone

\* C15: for every colour and every delta, adjustTone returns
\* tone = min(100, max(0, tone + delta)) and adjustChroma returns
\* chroma = max(0, chroma + delta), each with the other two components
\* unchanged, in a new value, the argument being left as it was.
C15_ClampNotWrap ==
  /\ Done("adjustTone") =>
       /\ result.status = "returned"
       /\ result.value.tone = Min(T(100), Max(0, args[1].tone + args[2]))
       /\ result.value.hue = args[1].hue
       /\ result.value.chroma = args[1].chroma
       /\ args[1] \in HctInputs
  /\ Done("adjustChroma") =>
       /\ result.status = "returned"
       /\ result.value.chroma = Max(0, args[1].chroma + args[2])
       /\ result.value.hue = args[1].hue
       /\ result.value.tone = args[1].tone
       /\ args[1] \in HctInputs

\* adjustTone has been asked for a tone above 100 and has returned 100
C15_Witness ==
  /\ Done("adjustTone")
  /\ args[1].tone + args[2] > T(100)
  /\ result.value.tone = T(100)

\* C16: in a generated scheme surfaceDim, surfaceBright and the
\* surfaceContainer tiers are the surface colour at the tone 10 (dark) or 99
\* (light) plus the role's delta: -4, +14, 0, +4, +6, +8, +12 in dark mode,
\* -12, +4, +5, +8, +12, +16, +22 in light mode.
SurfaceDeltas(isDark) ==
  [surfaceDim |-> IF isDark THEN -4 ELSE -12,
   surfaceBright |-> IF isDark THEN 14 ELSE 4,
   surfaceContainerLowest |-> IF isDark THEN 0 ELSE 5,
   surfaceContainerLow |-> IF isDark THEN 4 ELSE 8,
   surfaceContainer |-> IF isDark THEN 6 ELSE 12,
   surfaceContainerHigh |-> IF isDark THEN 8 ELSE 16,
   surfaceContainerHighest |-> IF isDark THEN 12 ELSE 22]
C16_SurfaceTiers ==
  Done("generateSchemeFromColor") =>
    /\ result.status = "returned"
    /\ LET seed == fromHex(args[1])
           surface == M3HCTColor(seed.hue, Max(0, seed.chroma - T(40)), 0)
           base == IF args[2] THEN 10 ELSE 99
       IN \A k \in DOMAIN SurfaceDeltas(args[2]) :
            result.value[k] = HexAtTone(surface, base + SurfaceDeltas(args[2])[k])

\* the pixels of a byte array, by number 1..PixelCount
PixelCount(pixels) == Len(pixels) \div 4
OpaquePixels(pixels) ==
  {n \in 1..PixelCount(pixels) : pixels[4 * n] >= 128}
\* the bucket of the n-th pixel: each channel rounded down to a multiple of 16
BucketOf(pixels, n) ==
  << (pixels[4 * n - 3] \div 16) * 16,
     (pixels[4 * n - 2] \div 16) * 16,
     (pixels[4 * n - 1] \div 16) * 16 >>
Buckets(pixels) == {BucketOf(pixels, n) : n \in OpaquePixels(pixels)}
BucketCount(pixels, bucket) ==
  Cardinality({n \in OpaquePixels(pixels) : BucketOf(pixels, n) = bucket})
\* the first opaque pixel of a bucket
BucketFirst(pixels, bucket) ==
  CHOOSE n \in OpaquePixels(pixels) :
    /\ BucketOf(pixels, n) = bucket
    /\ \A m \in OpaquePixels(pixels) : BucketOf(pixels, m) = bucket => n <= m
\* the place of a bucket by descending count, equal counts in the order of
\* their first pixels
BucketRank(pixels, bucket) ==
  1 + Cardinality(
        {other \in Buckets(pixels) :
           \/ BucketCount(pixels, other) > BucketCount(pixels, bucket)
           \/ /\ BucketCount(pixels, other) = BucketCount(pixels, bucket)
              /\ BucketFirst(pixels, other) < BucketFirst(pixels, bucket)})
\* the bucket a returned colour string stands for
BucketOfHex(hex) == LET rgb == hexToRgb(hex) IN << rgb.r, rgb.g, rgb.b >>
RECURSIVE SumCounts(_)
SumCounts(colorMap) ==
  IF Len(colorMap) = 0 THEN 0 ELSE Head(colorMap)[2] + SumCounts(Tail(colorMap))

\* C17: for every pixel sequence and every count k, extractColorsFromPixels
\* returns at most k colours, and any two distinct returned colours have a
\* contrast ratio strictly greater than 1.5 with each other.
C17_AtMostKDistinct ==
  Done("extractColorsFromPixels") =>
    /\ result.status = "returned"
    /\ Len(result.value) <= args[2]
    /\ \A i \in 1..Len(result.value), j \in 1..Len(result.value) :
         result.value[i] # result.value[j] =>
           contrastRatioExceeds(result.value[i], result.value[j], 1500)

\* of an image with five buckets, two colours have been kept: the most
\* frequent one and the light one, the similar ones between them skipped
C17_Witness ==
  /\ Done("extractColorsFromPixels")
  /\ args[2] = 2
  /\ Cardinality(Buckets(args[1])) = 5
  /\ result.value = << << "#", "6", "0", "5", "0", "A", "0" >>,
                       << "#", "F", "0", "F", "0", "F", "0" >> >>

\* C18: every colour returned by extractColorsFromPixels(pixels, k) is one
\* of the 2k most frequent histogram buckets, the returned colours are in
\* descending bucket-frequency order, and a bucket ranked below the top 2k is
\* never returned, even when fewer than k colours were kept.
C18_TopCandidatesInOrder ==
  Done("extractColorsFromPixels") =>
    /\ \A i \in 1..Len(result.value) :
         /\ BucketOfHex(result.value[i]) \in Buckets(args[1])
         /\ BucketRank(args[1], BucketOfHex(result.value[i])) <= 2 * args[2]
    /\ \A i \in 1..Len(result.value), j \in 1..Len(result.value) :
         i < j => BucketRank(args[1], BucketOfHex(result.value[i]))
                    < BucketRank(args[1], BucketOfHex(result.value[j]))

\* fewer than k = 2 colours have been kept although a strictly less frequent
\* fifth bucket is distinct from the one kept
C18_Witness ==
  /\ Done("extractColorsFromPixels")
  /\ args[2] = 2
  /\ Len(result.value) = 1
  /\ \E bucket \in Buckets(args[1]) :
       /\ BucketRank(args[1], bucket) = 5
       /\ \A other \in Buckets(args[1]) \ {bucket} :
            BucketCount(args[1], other) > BucketCount(args[1], bucket)
       /\ contrastRatioExceeds(rgbToHex(bucket[1], bucket[2], bucket[3]),
                               result.value[1], 1500)

\* C19: the histogram built by extractColorsFromPixels counts exactly the
\* pixels with alpha >= 128: each adds 1 to the bucket (floor(r/16)*16,
\* floor(g/16)*16, floor(b/16)*16), pixels with alpha < 128 add nothing, the
\* counts sum to the number of non-transparent pixels, and every returned
\* colour has all three channels a multiple of 16 in [0,240].
C19_HistogramCounts ==
  Done("extractColorsFromPixels") =>
    LET colorMap == buildColorMap(args[1]) IN
    /\ {colorMap[j][1] : j \in 1..Len(colorMap)} =
         {colorKeyOf(b[1], b[2], b[3]) : b \in Buckets(args[1])}
    /\ Len(colorMap) = Cardinality(Buckets(args[1]))
    /\ \A b \in Buckets(args[1]) :
         colorMapGet(colorMap, colorKeyOf(b[1], b[2], b[3])) =
           BucketCount(args[1], b)
    /\ SumCounts(colorMap) = Cardinality(OpaquePixels(args[1]))
    /\ \A i \in 1..Len(result.value) :
         \A c \in 1..3 :
           /\ BucketOfHex(result.value[i])[c] % 16 = 0
           /\ BucketOfHex(result.value[i])[c] \in 0..240

\* a transparent pixel and two pixels of alpha 128 have made one bucket of
\* count 2, and two light pixels the bucket (240, 240, 240)
C19_Witness ==
  /\ Done("extractColorsFromPixels")
  /\ args[1] = PixelA \o PixelA \o PixelE \o PixelE \o PixelX
  /\ buildColorMap(args[1]) =
       << << colorKeyOf(96, 80, 160), 2 >>, << colorKeyOf(240, 240, 240), 2 >> >>
  /\ args[2] = 2
  /\ Len(result.value) = 2

\* C20: for every pixel sequence and positive count k,
\* extractColorsFromPixels returns an empty sequence only if the sequence is
\* empty or every pixel has alpha < 128; with at least one pixel of alpha
\* >= 128 the result contains at least one colour.
C20_EmptyOnlyIfTransparent ==
  /\ Done("extractColorsFromPixels")
  /\ args[2] >= 1
  => (Len(result.value) = 0 <=> OpaquePixels(args[1]) = {})

\* one pixel of alpha exactly 128 among transparent ones has given a colour
C20_Witness ==
  /\ Done("extractColorsFromPixels")
  /\ args[2] >= 1
  /\ args[1] = PixelX \o PixelA \o PixelX
  /\ Len(result.value) = 1

\* C21: extractPrimaryColor returns "#6750A4" for an empty list and otherwise
\* a member of the list whose score is maximal, the earliest such member
\* when several tie; the list is left as it was.
C21_PrimaryIsFirstBest ==
  Done("extractPrimaryColor") =>
    /\ result.status = "returned"
    /\ args[1] \in ColorLists
    /\ Len(args[1]) = 0 => result.value = << "#", "6", "7", "5", "0", "A", "4" >>
    /\ Len(args[1]) > 0 =>
         \E scores \in {[j \in 1..Len(args[1]) |-> scoreOf(args[1][j])]} :
           \E i \in 1..Len(args[1]) :
             /\ result.value = args[1][i]
             /\ \A j \in 1..Len(args[1]) : scores[j] <= scores[i]
             /\ \A j \in 1..(i - 1) : scores[j] < scores[i]

\* of a list whose second and third colours tie for the highest score, the
\* second has been returned
C21_Witness ==
  /\ Done("extractPrimaryColor")
  /\ args[1] = << << "#", "F", "F", "0", "0", "0", "0" >>,
                  << "#", "C", "0", "4", "0", "4", "0" >>,
                  << "#", "6", "0", "5", "0", "A", "0" >> >>
  /\ scoreOf(args[1][2]) = scoreOf(args[1][3])
  /\ scoreOf(args[1][1]) < scoreOf(args[1][2])
  /\ result.value = args[1][2]

\* C25: for every valid background colour, the text colour returned by
\* M3HCTColor.getAccessibleTextColor has contrastRatio >= 4.5 against that
\* background: black or white always reaches 4.5, and the luminance
\* fallback is never taken.
C25_ResultIsReadable ==
  /\ Done("getAccessibleTextColor")
  /\ WellFormedHexInput(args[1])
  => /\ result.status = "returned"
     /\ contrastRatio(args[1], result.value) >= 4500
     /\ \/ contrastRatio(args[1], Black) >= 4500
        \/ contrastRatio(args[1], White) >= 4500

\* a grey on which black stays below 4.5 has got white, at 4.5 or more
C25_Witness ==
  /\ Done("getAccessibleTextColor")
  /\ args[1] = << "#", "5", "E", "5", "E", "5", "E" >>
  /\ contrastRatio(args[1], Black) < 4500
  /\ result.value = White
  /\ contrastRatio(args[1], result.value) >= 4500

\* C26: for every valid hex background, M3ColorUtils.getAccessibleTextColor
\* returns the same colour as M3HCTColor.getAccessibleTextColor.
C26_SelectorsAgree ==
  /\ Done("M3ColorUtils.getAccessibleTextColor")
  /\ WellFormedHexInput(args[1])
  => /\ result.status = "returned"
     /\ result.value = getAccessibleTextColor(args[1])

\* C29: for a connected m3-switch, after any sequence of toggle(), click or
\* Enter/Space activation, setChecked(boolean), setDisabled and direct
\* changes of the checked attribute, the checked getter equals the presence
\* of the checked attribute and aria-checked equals its string form; while
\* the disabled attribute is present, toggle and click/key activation leave
\* the state unchanged and dispatch no change event.
C29_SwitchConsistent ==
  LET this == m3switch.el
      before == m3switch.before
  IN /\ this.isConnected =>
          /\ M3Switch_checked(this) = hasAttribute(this, "checked")
          /\ this.attributes["aria-checked"]
               = << toStringBoolean(M3Switch_checked(this)) >>
     /\ (/\ m3switch.op \in {"toggle", "click", "keydown"}
         /\ before.isConnected
         /\ hasAttribute(before, "disabled")) =>
          /\ this.attributes = before.attributes
          /\ this._checked = before._checked
          /\ this.dispatched = << >>

\* a click has switched an enabled, connected switch on, and a script
\* writing the attribute found it so
C29_Witness ==
  /\ m3switch.op = "click"
  /\ m3switch.el.isConnected
  /\ ~hasAttribute(m3switch.el, "disabled")
  /\ ~m3switch.before._checked
  /\ m3switch.el._checked
  /\ m3switch.el.attributes["checked"] = << "" >>
  /\ m3switch.el.attributes["aria-checked"] = << "true" >>
  /\ m3switch.el.dispatched = << [type |-> "change", checked |-> TRUE] >>

\* C30: for an m3-button, after any sequence of connect and disconnect
\* events, one user click on the connected, non-disabled button dispatches
\* exactly one m3-button-click event, and a click on a disabled button
\* dispatches none; listeners installed by connectedCallback are fully
\* removed by disconnectedCallback.
C30_OneClickOneEvent ==
  LET this == m3button.el IN
  /\ (m3button.op = "click" /\ this.isConnected) =>
       Len(this.dispatched) = (IF hasAttribute(this, "disabled") THEN 0 ELSE 1)
  /\ m3button.op = "disconnect" =>
       /\ this.listeners.click = << >>
       /\ this.listeners.keydown = << >>
       /\ this.listeners.mousedown = << >>

\* the public operations of the theme holder
HolderOps ==
  {"M3Theme.generateSchemeFromSeed", "M3Theme.applyScheme",
   "M3Theme.toggleTheme", "M3Theme.applyImageTheme",
   "M3Theme.resetToDefault", "M3Theme.loadFromLocalStorage"}
\* the CSS variables of a scheme
styleOf(scheme) ==
  [name \in {cssVar(key) : key \in colourKeys(scheme)} |->
     scheme[CHOOSE key \in colourKeys(scheme) : cssVar(key) = name]]

\* C22: generateSchemeFromSeed returns a scheme whose keys are the role
\* names with the values of generateSchemeFromColor, every scheme the holder
\* keeps in customSchemes still has exactly those keys, and no key has been
\* added to the scheme in currentScheme
C22_SchemeImmutable ==
  /\ Done("M3Theme.generateSchemeFromSeed") =>
       /\ result.status = "returned"
       /\ DOMAIN result.value = RoleNames
       /\ result.value = generateSchemeFromColor(args[1], args[2]).value
  /\ page.M3Theme =>
       /\ \A j \in 1..Len(This(page).customSchemes) :
            DOMAIN This(page).customSchemes[j][2] = RoleNames
       /\ This(page).currentScheme # << >> =>
            DOMAIN This(page).currentScheme[1] \cap SchemeExtras = {}

\* C23: once the script has run and as long as neither a script nor the
\* user has chosen a theme, the holder exists and, between two handlers,
\* its isDark and the data-theme of the root are those of the system
\* preference
C23_FollowsSystemPreference ==
  (page.scriptRan /\ ~page.userChose) =>
    /\ page.M3Theme
    /\ This(page).isDark = page.prefersDark
    /\ (page.root.dataTheme = << "dark" >>) = page.prefersDark

\* C24: a public operation of the holder returns, and the holder is
\* consistent with the root: isDark with data-theme, currentSeed with
\* currentScheme.primary, the CSS variables with currentScheme
C24_HolderConsistent ==
  /\ (pc = "returned" /\ op \in HolderOps) => result.status = "returned"
  /\ page.M3Theme =>
       /\ This(page).isDark = (page.root.dataTheme = << "dark" >>)
       /\ This(page).currentScheme # << >>
       /\ "primary" \in DOMAIN This(page).currentScheme[1]
       /\ This(page).currentSeed = This(page).currentScheme[1]["primary"]
       /\ page.root.style = styleOf(This(page).currentScheme[1])

\* C27: applyImageTheme returns, and once no image is loading, the image of
\* the latest request having loaded and having colours, the stored
\* wallpaper URL, the applied scheme, currentSeed and isDark are those of
\* the latest request
C27_LatestRequestWins ==
  /\ Done("M3Theme.applyImageTheme") => result.status = "returned"
  /\ (/\ page.requested # << >>
      /\ page.images = << >>
      /\ ~page.requested[1].failed
      /\ Len(M3ColorExtractor_extractFromImage(
               ImageOf(page.requested[1].imageUrl), 5)) > 0) =>
       /\ page.localStorage.wallpaperUrl = << page.requested[1].imageUrl >>
       /\ This(page).currentScheme # << >>
       /\ "imageUrl" \in DOMAIN This(page).currentScheme[1]
       /\ This(page).currentScheme[1]["imageUrl"] = page.requested[1].imageUrl
       /\ This(page).currentSeed = This(page).currentScheme[1]["primary"]
       /\ page.requested[1].isDark # << >> =>
            This(page).isDark = page.requested[1].isDark[1]

\* C28: once no image is loading, the extract button is enabled and carries
\* its original label
C28_ExtractButtonRestored ==
  page.images = << >> =>
    /\ ~page.panel.extractBtn.disabled
    /\ page.panel.extractBtn.innerHTML = OriginalLabel

====
